---- MODULE Spec2Model ----
(***************************************************************************)
(* State-machine model of the escrow API in src/main.py: the in-memory     *)
(* user directory and metadata store, the request handlers, and the chain  *)
(* (escrow contract, ERC-20 allowances, transaction counts) they read.     *)
(*                                                                         *)
(* Handlers are `async def` bodies without an await, so one request runs   *)
(* to its response before the next one starts; the chain is an external    *)
(* system and may change between two RPC calls of the same request.  A    *)
(* handler is therefore a short sequence of steps, one per group of        *)
(* adjacent RPC calls, interleaved with the chain's own transitions.       *)
(***************************************************************************)
EXTENDS Integers, Sequences, FiniteSets, TLC

VARIABLES
    w3init,            \* w3 is not None (main.py:65-73)
    connected,         \* what w3.is_connected() answers now
    tasks,             \* the contract's mapping(uint256 => Task)
    taskCounter,       \* the contract's taskCounter
    txCount,           \* eth_getTransactionCount per wallet
    allowance,         \* ERC-20 allowance(owner, escrow) per token
    users_db,          \* main.py:431
    task_metadata_db,  \* main.py:432
    nextUid,           \* the next fresh uuid4 of User.id
    req,               \* the request being handled, with its locals
    resp               \* the response the last step sent, if it sent one

vars == <<w3init, connected, tasks, taskCounter, txCount, allowance,
          users_db, task_metadata_db, nextUid, req, resp>>

chainVars == <<w3init, connected, tasks, taskCounter, txCount, allowance>>
storeVars == <<users_db, task_metadata_db, nextUid>>

----------------------------------------------------------------------------
(* Bounds of the model *)

MaxTasks == 1       \* tasks the chain creates
MaxNonce == 3       \* transactions a wallet sends
MaxAmount == 2      \* largest task amount and allowance, in base units
MaxUsers == 2       \* records the user directory may hold
MaxFrac == 29       \* digits after the point of an amount

(* Program constants *)

AddrLen == 42       \* len(wallet_address) != 42
PrefixLen == 2      \* '0x'

DecimalPrec == 28    \* precision of the default decimal context
EtherDecimals == 18  \* Decimal("1000000000000000000")
TokenDecimals == 6   \* stablecoins: token_to_base_unit(task_data.amount, 6)

\* class TaskStatus
CREATED == 0
FUNDED == 1
COMPLETED == 2
DISPUTED == 3
CANCELLED == 4

----------------------------------------------------------------------------
(* Strings.  A string is the sequence of its runs <<character, length>>,   *)
(* no two adjacent runs of one character: "0xaaa" is                       *)
(* << <<"0", 1>>, <<"x", 1>>, <<"a", 3>> >>.                               *)

Digits   == {"0", "1", "2", "3", "4", "5", "6", "7", "8", "9"}
HexLower == Digits \cup {"a", "b", "c", "d", "e", "f"}
HexUpper == Digits \cup {"A", "B", "C", "D", "E", "F"}

LowerChar(c) ==
    CASE c = "A" -> "a" [] c = "B" -> "b" [] c = "C" -> "c"
      [] c = "D" -> "d" [] c = "E" -> "e" [] c = "F" -> "f"
      [] c = "G" -> "g" [] c = "X" -> "x" [] OTHER -> c

UpperChar(c) ==
    CASE c = "a" -> "A" [] c = "b" -> "B" [] c = "c" -> "C"
      [] c = "d" -> "D" [] c = "e" -> "E" [] c = "f" -> "F"
      [] c = "g" -> "G" [] c = "x" -> "X" [] OTHER -> c

\* len(s)
RECURSIVE StrLen(_)
StrLen(s) == IF s = <<>> THEN 0 ELSE s[1][2] + StrLen(Tail(s))

\* adjacent runs of one character merged
RECURSIVE Normal(_)
Normal(s) ==
    IF Len(s) < 2 THEN s
    ELSE IF s[1][1] = s[2][1]
    THEN Normal(<<<<s[1][1], s[1][2] + s[2][2]>>>> \o Tail(Tail(s)))
    ELSE <<s[1]>> \o Normal(Tail(s))

\* s[:k]
RECURSIVE Take(_, _)
Take(s, k) ==
    IF k <= 0 \/ s = <<>> THEN <<>>
    ELSE IF s[1][2] <= k THEN <<s[1]>> \o Take(Tail(s), k - s[1][2])
    ELSE <<<<s[1][1], k>>>>

\* s[k:]
RECURSIVE Drop(_, _)
Drop(s, k) ==
    IF k <= 0 \/ s = <<>> THEN s
    ELSE IF s[1][2] <= k THEN Drop(Tail(s), k - s[1][2])
    ELSE <<<<s[1][1], s[1][2] - k>>>> \o Tail(s)

\* str.lower()
Lower(s) == Normal([i \in 1..Len(s) |-> <<LowerChar(s[i][1]), s[i][2]>>])

\* str.upper()
Upper(s) == Normal([i \in 1..Len(s) |-> <<UpperChar(s[i][1]), s[i][2]>>])

\* every character of s is in chars
AllIn(s, chars) == \A i \in 1..Len(s) : s[i][1] \in chars

\* str.startswith('0x')
StartsWith0x(s) == Take(s, PrefixLen) = <<<<"0", 1>>, <<"x", 1>>>>

\* the 0x-prefixed address whose 40 digits are all c
Addr(c) == <<<<"0", 1>>, <<"x", 1>>, <<c, AddrLen - PrefixLen>>>>

\* The EIP-55 spelling of a lower-case address.  The real one takes the case
\* of each letter from a keccak hash; here the second half of the digits is
\* upper-cased, which keeps what matters: the result differs from s in case
\* only, and an address has exactly one such spelling.
ToChecksum(s) ==
    LET half == PrefixLen + (StrLen(s) - PrefixLen) \div 2 IN
    Normal(Lower(Take(s, half)) \o Upper(Drop(s, half)))

\* web3's is_address: 40 hex digits with an optional 0x prefix, and a valid
\* checksum when the letters are of mixed case
IsAddress(s) ==
    LET pre  == Lower(Take(s, PrefixLen)) = <<<<"0", 1>>, <<"x", 1>>>>
        body == IF pre THEN Drop(s, PrefixLen) ELSE s
    IN  /\ StrLen(body) = AddrLen - PrefixLen
        /\ AllIn(body, HexLower \cup HexUpper)
        /\ \/ AllIn(body, HexLower)
           \/ AllIn(body, HexUpper)
           \/ s = ToChecksum(Lower(s))

----------------------------------------------------------------------------
(* Numbers of any size and decimal.Decimal.  A natural number is the       *)
(* string of its digits without leading zeros (zero is the empty string);  *)
(* a Decimal that is not negative is a coefficient and the number of digits *)
(* after the point.  Arithmetic on Decimals rounds its result to the context         *)
(* precision, half to even, as the decimal module does by default.         *)

DigitVal(c) ==
    CASE c = "0" -> 0 [] c = "1" -> 1 [] c = "2" -> 2 [] c = "3" -> 3 [] c = "4" -> 4
      [] c = "5" -> 5 [] c = "6" -> 6 [] c = "7" -> 7 [] c = "8" -> 8 [] c = "9" -> 9

DigitChar(n) ==
    CASE n = 0 -> "0" [] n = 1 -> "1" [] n = 2 -> "2" [] n = 3 -> "3" [] n = 4 -> "4"
      [] n = 5 -> "5" [] n = 6 -> "6" [] n = 7 -> "7" [] n = 8 -> "8" [] n = 9 -> "9"

\* k zeros
Zeros(k) == IF k > 0 THEN <<<<"0", k>>>> ELSE <<>>

\* leading zeros removed
StripZeros(s) ==
    LET n == Normal(s) IN IF n # <<>> /\ n[1][1] = "0" THEN Tail(n) ELSE n

\* str(n) of a small integer n >= 0, as a natural number
RECURSIVE NatOf(_)
NatOf(n) ==
    IF n = 0 THEN <<>> ELSE Normal(NatOf(n \div 10) \o <<<<DigitChar(n % 10), 1>>>>)

\* s[i], counting from 1
RECURSIVE CharAt(_, _)
CharAt(s, i) == IF i <= s[1][2] THEN s[1][1] ELSE CharAt(Tail(s), i - s[1][2])

\* n + 1
RECURSIVE Inc(_)
Inc(s) ==
    IF s = <<>> THEN <<<<"1", 1>>>>
    ELSE LET last  == s[Len(s)]
             front == SubSeq(s, 1, Len(s) - 1)
         IN  IF last[1] = "9"
             THEN Normal(Inc(front) \o <<<<"0", last[2]>>>>)
             ELSE Normal(front
                         \o (IF last[2] > 1 THEN <<<<last[1], last[2] - 1>>>> ELSE <<>>)
                         \o <<<<DigitChar(DigitVal(last[1]) + 1), 1>>>>)

\* m <= n for digit strings of one length
RECURSIVE LexLeq(_, _)
LexLeq(m, n) ==
    IF m = <<>> THEN TRUE
    ELSE IF m[1][1] # n[1][1] THEN DigitVal(m[1][1]) < DigitVal(n[1][1])
    ELSE LET k == IF m[1][2] < n[1][2] THEN m[1][2] ELSE n[1][2] IN
         LexLeq(Drop(m, k), Drop(n, k))

\* m <= n for natural numbers
NatLeq(m, n) ==
    \/ StrLen(m) < StrLen(n)
    \/ StrLen(m) = StrLen(n) /\ LexLeq(m, n)

\* n * 10 ** k
Shift(n, k) == IF n = <<>> THEN <<>> ELSE Normal(n \o Zeros(k))

\* n // 10 ** k
Unshift(n, k) == Take(n, StrLen(n) - k)

Dec(digits, scale) == [digits |-> digits, scale |-> scale]

\* Decimal("0")
DecZero == Dec(<<>>, 0)

\* the amount whose integer part is the digit int and whose fraction is k
\* digits f and then the digits last
Amount(int, f, k, last) ==
    Dec(StripZeros(<<<<int, 1>>>> \o (IF k > 0 THEN <<<<f, k>>>> ELSE <<>>) \o last),
        k + StrLen(last))

\* the zeros a natural number ends with
TrailingZeros(n) == IF n # <<>> /\ n[Len(n)][1] = "0" THEN n[Len(n)][2] ELSE 0

\* The result of an operation, of coefficient c and scale `scale`, in the
\* context: a coefficient longer than the precision is rounded to it, half
\* to even, and the exponent grows by the digits dropped.
Fix(c, scale) ==
    IF StrLen(c) <= DecimalPrec THEN Dec(c, scale)
    ELSE LET kept    == Take(c, DecimalPrec)
             rest    == Drop(c, DecimalPrec)
             first   == DigitVal(CharAt(rest, 1))
             odd     == DigitVal(CharAt(kept, DecimalPrec)) % 2 = 1
             up      == \/ first > 5
                        \/ first = 5 /\ (~AllIn(Drop(rest, 1), {"0"}) \/ odd)
             rounded == IF up THEN Inc(kept) ELSE kept
         IN  IF StrLen(rounded) > DecimalPrec
             THEN Dec(Unshift(rounded, 1), scale - StrLen(rest) - 1)
             ELSE Dec(rounded, scale - StrLen(rest))

\* Decimal * (10 ** d)
DecMulPow10(a, d) == Fix(Shift(a.digits, d), a.scale)

\* int(Decimal): the digits after the point are dropped
DecToInt(a) ==
    IF a.scale >= 0 THEN Unshift(a.digits, a.scale) ELSE Shift(a.digits, -a.scale)

\* Decimal(str(n)) / Decimal(str(10 ** d)): the quotient with the exponent
\* as close to zero as its digits allow
DecDivPow10(n, d) ==
    LET k == IF TrailingZeros(n) < d THEN TrailingZeros(n) ELSE d IN
    IF n = <<>> THEN DecZero ELSE Fix(Unshift(n, k), d - k)

\* a <= b for Decimals that are not negative
DecLeq(a, b) ==
    LET m == IF a.scale < b.scale THEN a.scale ELSE b.scale IN
    NatLeq(Shift(a.digits, b.scale - m), Shift(b.digits, a.scale - m))

\* str(Decimal): positional notation, or scientific notation when the
\* exponent is positive or the number has more than six zeros after the point
DecStr(a) ==
    LET int        == IF a.digits = <<>> THEN <<<<"0", 1>>>> ELSE a.digits
        exp        == 0 - a.scale
        leftdigits == exp + StrLen(int)
        dotplace   == IF exp <= 0 /\ leftdigits > -6 THEN leftdigits ELSE 1
        number     == IF dotplace <= 0
                      THEN <<<<"0", 1>>, <<".", 1>>>> \o Zeros(0 - dotplace) \o int
                      ELSE IF dotplace >= StrLen(int)
                      THEN int \o Zeros(dotplace - StrLen(int))
                      ELSE Take(int, dotplace) \o <<<<".", 1>>>> \o Drop(int, dotplace)
        power      == leftdigits - dotplace
        exponent   == IF power = 0 THEN <<>>
                      ELSE <<<<"E", 1>>, <<IF power < 0 THEN "-" ELSE "+", 1>>>>
                           \o NatOf(IF power < 0 THEN 0 - power ELSE power)
    IN  Normal(number \o exponent)

\* wei_to_ether(wei_amount)
wei_to_ether(wei_amount) == DecDivPow10(wei_amount, EtherDecimals)

\* ether_to_wei(ether_amount)
ether_to_wei(ether_amount) == DecToInt(DecMulPow10(ether_amount, EtherDecimals))

\* token_to_base_unit(amount, decimals)
token_to_base_unit(amount, decimals) == DecToInt(DecMulPow10(amount, decimals))

\* base_unit_to_token(base_amount, decimals)
base_unit_to_token(base_amount, decimals) == DecDivPow10(base_amount, decimals)

----------------------------------------------------------------------------
(* Configuration (class Config) and the inputs requests are drawn from *)

ZERO_ADDRESS     == Normal(Addr("0"))
CONTRACT_ADDRESS == Addr("e")
USDC_ADDRESS     == Addr("c")
USDT_ADDRESS     == Addr("d")

WalletA == Addr("a")
WalletB == Addr("b")

\* wallets that hold a key and send transactions on the chain
Wallets == {WalletA, WalletB}

\* the same wallet in checksum spelling, as web3 returns it
MixedA == ToChecksum(WalletA)

\* bearer tokens and registration addresses presented to the API
AddressInputs ==
    { WalletA, Addr("A"), MixedA, WalletB, ZERO_ADDRESS,
      Addr("g"),                                  \* 42 characters, not hexadecimal
      <<<<"0", 1>>, <<"x", 1>>, <<"a", 1>>>>,     \* too short
      <<<<"a", AddrLen>>>>,                       \* 42 hex digits without the prefix
      <<>> }                                      \* empty

----------------------------------------------------------------------------
(* The chain: the escrow contract of get_deployment_script, the token      *)
(* contracts and the wallets' transaction counts.  Addresses are kept      *)
(* lower-cased on the chain and returned in checksum spelling.             *)

Task(id, client, freelancer, amount, token, status) ==
    [id |-> id, client |-> client, freelancer |-> freelancer, amount |-> amount,
     token |-> token, status |-> status]

\* what mapping(uint256 => Task) holds for an id never assigned
ZeroTask == Task(0, ZERO_ADDRESS, ZERO_ADDRESS, 0, ZERO_ADDRESS, CREATED)

TaskIds == 1..MaxTasks

Descriptor(step, fn, to, from, value, estValue, nonce, spender, arg) ==
    [step |-> step, fn |-> fn, to |-> to, from |-> from, value |-> value,
     est_value |-> estValue, nonce |-> nonce, spender |-> spender, arg |-> arg]

\* the path /head/tail of a request
Path(head, tail) == [head |-> head, tail |-> tail]

NoPath == Path("", <<>>)

\* the balances of a wallet: native coin in wei, stablecoins in base units;
\* in a response, the strings that stand for them
Balances(avax, usdc, usdt) == [AVAX |-> avax, USDC |-> usdc, USDT |-> usdt]

NoBalances == Balances(<<>>, <<>>, <<>>)

\* a response: the status code and body sent, and beside them what the
\* handler had read and done when it answered
NoResp ==
    [op |-> "none", code |-> 0, raised |-> 0, detail |-> "", input |-> <<>>,
     user_id |-> 0, created |-> FALSE, caller |-> <<>>, task_id |-> 0,
     read |-> FALSE, task |-> ZeroTask, currency |-> "AVAX", allowance |-> 0,
     calls |-> 0, instructions |-> <<>>, stored |-> FALSE,
     amount |-> DecZero, decimals |-> 0, base |-> <<>>, back |-> DecZero,
     freelancer_address |-> <<>>, deadline |-> "none",
     failed |-> {}, chain |-> NoBalances, client_tasks |-> <<>>,
     freelancer_tasks |-> <<>>, wallet_balances |-> NoBalances,
     checked |-> {}, healthy |-> {}, path |-> NoPath, endpoint |-> "none",
     tasks |-> <<>>, reason |-> "",
     email |-> "none", is_freelancer |-> FALSE,
     body_email |-> "none", body_is_freelancer |-> FALSE]

\* the locals of the handler in progress
NoReq ==
    [op |-> "none", pc |-> "idle", input |-> <<>>, caller |-> <<>>, task_id |-> 0,
     task |-> ZeroTask, currency |-> "AVAX", allowance |-> 0, calls |-> 0,
     instructions |-> <<>>, amount |-> DecZero, decimals |-> 0, base |-> <<>>,
     freelancer_address |-> <<>>, deadline |-> "none"]

\* tasks[_taskId]
TaskAt(t) == IF t \in TaskIds THEN tasks[t] ELSE ZeroTask

\* contract.functions.getTask(task_id).call(): the tuple, addresses in
\* checksum spelling
GetTaskCall(t) ==
    LET k == TaskAt(t) IN
    [k EXCEPT !.client = ToChecksum(k.client), !.freelancer = ToChecksum(k.freelancer),
              !.token = ToChecksum(k.token)]

\* w3.eth.get_transaction_count(address)
TxCountOf(a) == IF Lower(a) \in Wallets THEN txCount[Lower(a)] ELSE 0

TokenAddrs == {USDC_ADDRESS, USDT_ADDRESS}

\* token.allowance(owner, escrow)
AllowanceOf(token, owner) ==
    IF Lower(owner) \in Wallets /\ Lower(token) \in TokenAddrs
    THEN allowance[Lower(owner)][Lower(token)] ELSE 0

\* IERC20(task.token).transferFrom(msg.sender, address(this), task.amount):
\* an OpenZeppelin ERC-20 reverts when the allowance is short (balances are
\* taken to suffice)
TransferFromOk(token, owner, amount) == AllowanceOf(token, owner) >= amount

\* whether fundTask(_taskId) sent by `sender` with msg.value = value passes
\* its requires on the current chain state
FundTaskOk(sender, t, value) ==
    LET k == TaskAt(t) IN
    /\ k.client = Lower(sender)
    /\ k.status = CREATED
    /\ IF k.token = ZERO_ADDRESS
       THEN value = k.amount
       ELSE value = 0 /\ TransferFromOk(k.token, sender, k.amount)

\* markDelivered(_taskId)
MarkDeliveredOk(sender, t) ==
    LET k == TaskAt(t) IN k.freelancer = Lower(sender) /\ k.status = FUNDED

\* approveTask(_taskId)
ApproveTaskOk(sender, t) ==
    LET k == TaskAt(t) IN k.client = Lower(sender) /\ k.status = FUNDED

\* the message of the require on which fundTask(_taskId) reverts, "" if none
FundTaskRevert(sender, t, value) ==
    LET k == TaskAt(t) IN
    IF k.client # Lower(sender) THEN "Only client can fund"
    ELSE IF k.status # CREATED THEN "Task not in created status"
    ELSE IF k.token = ZERO_ADDRESS
    THEN IF value # k.amount THEN "Incorrect AVAX amount" ELSE ""
    ELSE IF value # 0 THEN "No AVAX needed for token payment"
    ELSE IF ~TransferFromOk(k.token, sender, k.amount) THEN "transferFrom"
    ELSE ""

\* the same for markDelivered(_taskId)
MarkDeliveredRevert(sender, t) ==
    LET k == TaskAt(t) IN
    IF k.freelancer # Lower(sender) THEN "Only freelancer can mark delivered"
    ELSE IF k.status # FUNDED THEN "Task not funded"
    ELSE ""

\* the same for approveTask(_taskId)
ApproveTaskRevert(sender, t) ==
    LET k == TaskAt(t) IN
    IF k.client # Lower(sender) THEN "Only client can approve"
    ELSE IF k.status # FUNDED THEN "Task not funded"
    ELSE ""

BumpNonce(w) == [txCount EXCEPT ![w] = @ + 1]

\* a wallet sends createTask
ChainCreateTask(sender, freelancer, amount, token) ==
    /\ taskCounter < MaxTasks
    /\ txCount[sender] < MaxNonce
    /\ freelancer # ZERO_ADDRESS
    /\ amount > 0
    /\ taskCounter' = taskCounter + 1
    /\ tasks' = [tasks EXCEPT ![taskCounter + 1] =
                    Task(taskCounter + 1, sender, freelancer, amount, token, CREATED)]
    /\ txCount' = BumpNonce(sender)
    /\ UNCHANGED <<w3init, connected, allowance, storeVars, req>> /\ resp' = NoResp

\* a wallet sends fundTask, with the value the contract asks for
ChainFundTask(sender, t) ==
    LET k == TaskAt(t)
        value == IF k.token = ZERO_ADDRESS THEN k.amount ELSE 0 IN
    /\ t \in TaskIds
    /\ txCount[sender] < MaxNonce
    /\ FundTaskOk(sender, t, value)
    /\ tasks' = [tasks EXCEPT ![t].status = FUNDED]
    /\ allowance' = IF k.token = ZERO_ADDRESS THEN allowance
                    ELSE [allowance EXCEPT ![sender][k.token] = @ - k.amount]
    /\ txCount' = BumpNonce(sender)
    /\ UNCHANGED <<w3init, connected, taskCounter, storeVars, req>> /\ resp' = NoResp

\* a wallet sends approveTask
ChainApproveTask(sender, t) ==
    /\ t \in TaskIds
    /\ txCount[sender] < MaxNonce
    /\ ApproveTaskOk(sender, t)
    /\ tasks' = [tasks EXCEPT ![t].status = COMPLETED]
    /\ txCount' = BumpNonce(sender)
    /\ UNCHANGED <<w3init, connected, taskCounter, allowance, storeVars, req>> /\ resp' = NoResp

\* the side exits of the lifecycle: Created -> Cancelled, Funded -> Disputed
ChainSideExit(t) ==
    /\ t \in TaskIds
    /\ tasks[t].id # 0
    /\ tasks[t].status \in {CREATED, FUNDED}
    /\ tasks' = [tasks EXCEPT ![t].status = IF @ = CREATED THEN CANCELLED ELSE DISPUTED]
    /\ UNCHANGED <<w3init, connected, taskCounter, txCount, allowance, storeVars, req>> /\ resp' = NoResp

\* a wallet sends token.approve(escrow, amount)
ChainApproveToken(owner, token, amount) ==
    /\ txCount[owner] < MaxNonce
    /\ allowance' = [allowance EXCEPT ![owner][token] = amount]
    /\ txCount' = BumpNonce(owner)
    /\ UNCHANGED <<w3init, connected, tasks, taskCounter, storeVars, req>> /\ resp' = NoResp

\* a wallet sends any other transaction
ChainSendTx(w) ==
    /\ txCount[w] < MaxNonce
    /\ txCount' = BumpNonce(w)
    /\ UNCHANGED <<w3init, connected, tasks, taskCounter, allowance, storeVars, req>> /\ resp' = NoResp

\* a provider whose HTTP requests wait for the answer without a limit: a call
\* comes back only when the endpoint answers
HTTPProviderBlocks(answers) == answers

\* w3 = Web3(Web3.HTTPProvider(config.AVALANCHE_RPC_URL)): the provider is
\* built with the request settings of the library, whose HTTP requests carry
\* a timeout; a call to an endpoint that does not answer ends with an
\* exception, so every call comes back, with a result or by raising
HTTPProvider(answers) == TRUE

\* the RPC endpoint becomes unreachable, or reachable again
ConnToggle ==
    /\ w3init
    /\ connected' = ~connected
    /\ UNCHANGED <<w3init, tasks, taskCounter, txCount, allowance, storeVars, req>> /\ resp' = NoResp

----------------------------------------------------------------------------
(* Users: get_current_user and register_user *)

User(id, wallet, email, isFreelancer) ==
    [id |-> id, wallet_address |-> wallet, email |-> email, is_freelancer |-> isFreelancer]

NoUser == User(0, <<>>, "none", FALSE)

\* a store that is rebuilt around the record written
PutUserAlone(db, key, user) == [k \in {key} |-> user]

\* users_db[key] = user
PutUser(db, key, user) ==
    [k \in DOMAIN db \cup {key} |-> IF k = key THEN user ELSE db[k]]

Idle == req.pc = "idle"

BearerKeyRaw(token) == token

\* wallet_address = token.lower()
BearerKey(token) == Lower(token)

\* the format checks of get_current_user; 0 = the token passes
AuthError(token, wallet_address) ==
    IF token = <<>> THEN 401
    ELSE IF ~StartsWith0x(wallet_address) \/ StrLen(wallet_address) # AddrLen THEN 401
    ELSE IF w3init /\ ~IsAddress(wallet_address) THEN 401
    ELSE 0

\* get_current_user(token): the status it raises (0 = none), the directory
\* after it, and the User it returns (get or create)
Auth(token) ==
    LET wallet_address == BearerKey(token)
        error == AuthError(token, wallet_address)
        isNew == error = 0 /\ wallet_address \notin DOMAIN users_db
        users == IF isNew
                 THEN PutUser(users_db, wallet_address,
                              User(nextUid, wallet_address, "none", FALSE))
                 ELSE users_db
    IN  [error |-> error, created |-> isNew, users |-> users,
         uid |-> IF isNew THEN nextUid + 1 ELSE nextUid,
         user |-> IF error = 0 THEN users[wallet_address] ELSE NoUser]

\* the directory holds no more than MaxUsers records
Fits(users) == Cardinality(DOMAIN users) <= MaxUsers

\* A request whose handler does nothing but resolve its bearer credential:
\* the dependency every authenticated route runs first.
ResolveBearer(token) ==
    LET auth == Auth(token) IN
    /\ Idle
    /\ Fits(auth.users)
    /\ users_db' = auth.users
    /\ nextUid' = auth.uid
    /\ resp' = IF auth.error # 0
               THEN [NoResp EXCEPT !.op = "auth", !.code = auth.error,
                                   !.raised = auth.error,
                                   !.detail = "Invalid wallet address", !.input = token]
               ELSE [NoResp EXCEPT !.op = "auth", !.code = 200, !.input = token,
                                   !.user_id = auth.user.id, !.created = auth.created,
                                   !.caller = auth.user.wallet_address]
    /\ UNCHANGED <<chainVars, task_metadata_db, req>>

RegisterKeyRaw(address) == address

\* wallet_address = user_data.wallet_address.lower()
RegisterKey(address) == Lower(address)

\* the format checks of register_user; 0 = the address passes
RegisterError(wallet_address) ==
    IF ~StartsWith0x(wallet_address) \/ StrLen(wallet_address) # AddrLen THEN 400
    ELSE IF w3init /\ ~IsAddress(wallet_address) THEN 400
    ELSE 0

\* a registration that answers with the data of the request under the id of
\* the record held
ExistingUserUpdated(held, fresh) == [fresh EXCEPT !.id = held.id]

\* if wallet_address in users_db: return users_db[wallet_address]
ExistingUser(held, fresh) == held

\* POST /users/register
RegisterUser(address, email, isFreelancer) ==
    LET wallet_address == RegisterKey(address)
        error  == RegisterError(wallet_address)
        exists == wallet_address \in DOMAIN users_db
        fresh  == User(nextUid, wallet_address, email, isFreelancer)
        user   == IF exists THEN ExistingUser(users_db[wallet_address], fresh)
                  ELSE fresh
    IN
    /\ Idle
    /\ IF error # 0
       THEN /\ resp' = [NoResp EXCEPT !.op = "register", !.code = 400, !.raised = error,
                                      !.detail = "Registration failed", !.input = address]
            /\ UNCHANGED <<users_db, nextUid>>
       ELSE /\ Fits(PutUser(users_db, wallet_address, user))
            /\ users_db' = IF exists THEN users_db ELSE PutUser(users_db, wallet_address, user)
            /\ nextUid' = IF exists THEN nextUid ELSE nextUid + 1
            /\ resp' = [NoResp EXCEPT !.op = "register", !.code = 200, !.input = address,
                                      !.user_id = user.id, !.created = ~exists,
                                      !.caller = user.wallet_address,
                                      !.email = user.email,
                                      !.is_freelancer = user.is_freelancer,
                                      !.body_email = email,
                                      !.body_is_freelancer = isFreelancer]
    /\ UNCHANGED <<chainVars, task_metadata_db, req>>

----------------------------------------------------------------------------
(* The task routes.  Each handler body is a try block whose                *)
(* `except Exception` answers 400 whatever was raised inside it.           *)

\* except Exception as e: raise HTTPException(status_code=400, ...)
HandlerExcept(raised) == 400

\* get_escrow_contract(): the status it raises, 0 = the contract is returned
EscrowError ==
    IF ~w3init THEN 500
    ELSE IF ~connected THEN 500
    ELSE 0

\* metadata.get("currency", "AVAX") of task_metadata_db.get(task_id, {})
CurrencyOf(t) ==
    IF t \in DOMAIN task_metadata_db THEN task_metadata_db[t].currency ELSE "AVAX"

\* get_token_address(currency)
TokenAddress(currency) ==
    CASE currency = "AVAX" -> ZERO_ADDRESS
      [] currency = "USDC" -> USDC_ADDRESS
      [] currency = "USDT" -> USDT_ADDRESS

\* a request answered with an error
Refusal(op, token, caller, t, task, read, raised, code, detail, calls) ==
    [NoResp EXCEPT !.op = op, !.code = code, !.raised = raised, !.detail = detail,
                   !.input = token, !.caller = caller, !.task_id = t, !.task = task,
                   !.read = read, !.calls = calls]

\* the response to a request that does not get past get_current_user,
\* get_escrow_contract or the handler's own check of the task it read
\* (`guard`: the status that check raises, 0 = none); NoResp if it gets past
Refused(op, token, t, auth, task, guard, detail) ==
    IF auth.error # 0
    THEN Refusal(op, token, <<>>, t, ZeroTask, FALSE, auth.error, auth.error,
                 "Invalid wallet address", 0)
    ELSE IF EscrowError # 0
    THEN Refusal(op, token, auth.user.wallet_address, t, ZeroTask, FALSE, EscrowError,
                 HandlerExcept(EscrowError), "Web3 not connected", 0)
    ELSE IF guard # 0
    THEN Refusal(op, token, auth.user.wallet_address, t, task, TRUE, guard,
                 HandlerExcept(guard), detail, 0)
    ELSE NoResp

\* an error raised inside the try block of the handler in progress
Failed(raised, detail, calls) ==
    [Refusal(req.op, req.input, req.caller, req.task_id, req.task, TRUE, raised,
             HandlerExcept(raised), detail, calls)
       EXCEPT !.currency = req.currency, !.allowance = req.allowance,
              !.amount = req.amount, !.base = req.base,
              !.freelancer_address = req.freelancer_address,
              !.deadline = req.deadline]

RevertedPartial(raised, reason, calls) ==
    [Failed(raised, "simulation", calls) EXCEPT !.reason = reason,
                                                !.code = 200,
                                                !.instructions = req.instructions]

\* estimate_gas raised: the revert reason is str(e) in the detail of the error
Reverted(raised, reason, calls) ==
    [Failed(raised, "simulation", calls) EXCEPT !.reason = reason]

\* the handler in progress answers 200
Answered(instructions, calls) ==
    [NoResp EXCEPT !.op = req.op, !.code = 200, !.input = req.input,
                   !.caller = req.caller, !.task_id = req.task_id, !.task = req.task,
                   !.read = TRUE, !.currency = req.currency,
                   !.allowance = req.allowance, !.calls = calls,
                   !.instructions = instructions,
                   !.amount = req.amount, !.base = req.base,
                   !.freelancer_address = req.freelancer_address,
                   !.deadline = req.deadline]

\* Depends(get_current_user), get_escrow_contract(), getTask(task_id).call()
\* and the handler's checks; `pc` is the first step after them
BeginTaskRequest(op, token, t, auth, task, guard, detail, pc) ==
    LET refused == Refused(op, token, t, auth, task, guard, detail) IN
    /\ Idle
    /\ Fits(auth.users)
    /\ users_db' = auth.users
    /\ nextUid' = auth.uid
    /\ resp' = refused
    /\ req' = IF refused # NoResp THEN NoReq
              ELSE [NoReq EXCEPT !.op = op, !.pc = pc, !.input = token,
                                 !.caller = auth.user.wallet_address,
                                 !.task_id = t, !.task = task,
                                 !.currency = CurrencyOf(t)]
    /\ UNCHANGED <<chainVars, task_metadata_db>>

GuardDetail(guard) == IF guard = 403 THEN "role" ELSE "status"

FundGuardNoStatus(task, caller) ==
    IF Lower(task.client) # Lower(caller) THEN 403 ELSE 0

\* the two checks of get_fund_instructions in the other order
FundGuardStatusFirst(task, caller) ==
    IF task.status # CREATED THEN 400
    ELSE IF Lower(task.client) # Lower(caller) THEN 403
    ELSE 0

\* the checks of get_fund_instructions: 403 only the client, 400 not Created
FundGuard(task, caller) ==
    IF Lower(task.client) # Lower(caller) THEN 403
    ELSE IF task.status # CREATED THEN 400
    ELSE 0

\* the checks of mark_delivered_instructions
DeliverGuard(task, caller) ==
    IF Lower(task.freelancer) # Lower(caller) THEN 403
    ELSE IF task.status # FUNDED THEN 400
    ELSE 0

\* the checks of approve_task_instructions
ApproveGuard(task, caller) ==
    IF Lower(task.client) # Lower(caller) THEN 403
    ELSE IF task.status # FUNDED THEN 400
    ELSE 0

BuildTransactionSent(sender) ==
    IF Lower(sender) \in Wallets THEN BumpNonce(Lower(sender)) ELSE txCount

\* function_call.build_transaction({...}): the transaction is built and handed
\* to the caller, nothing is signed or sent; the transaction counts after it
BuildTransaction(sender) == txCount

\* POST /tasks/{task_id}/fund-instructions, up to the choice of the path
FundBegin(token, t) ==
    LET auth  == Auth(token)
        task  == GetTaskCall(t)
        guard == FundGuard(task, auth.user.wallet_address)
    IN  BeginTaskRequest("fund", token, t, auth, task, guard, GuardDetail(guard),
                         IF CurrencyOf(t) = "AVAX" THEN "native" ELSE "allowance")

\* 'value': amount of estimate_gas
NativeEstimateValue(task) == task.amount

NativeTxValueNone(task) == 0

\* 'value': amount of build_transaction
NativeTxValue(task) == task.amount

\* the AVAX path: estimate_gas with the value attached, then gas price, the
\* transaction count and build_transaction
FundNative ==
    /\ req.op = "fund" /\ req.pc = "native"
    /\ req' = NoReq
    /\ resp' =
         IF ~connected THEN Failed(0, "rpc", req.calls + 1)
         ELSE IF ~FundTaskOk(req.caller, req.task_id, NativeEstimateValue(req.task))
         THEN Reverted(0, FundTaskRevert(req.caller, req.task_id,
                                         NativeEstimateValue(req.task)),
                       req.calls + 1)
         ELSE Answered(<<Descriptor(0, "fundTask", CONTRACT_ADDRESS, req.caller,
                                    NativeTxValue(req.task),
                                    NativeEstimateValue(req.task),
                                    TxCountOf(req.caller), <<>>, req.task_id)>>,
                       req.calls + 4)
    /\ txCount' = IF resp'.detail = "" THEN BuildTransaction(req.caller) ELSE txCount
    /\ UNCHANGED <<w3init, connected, tasks, taskCounter, allowance, storeVars>>

\* if allowance < amount
NeedsApproval(allow, amount) == allow < amount

\* the token path: get_token_contract and the allowance read
FundAllowance ==
    /\ req.op = "fund" /\ req.pc = "allowance"
    /\ IF ~connected
       THEN /\ resp' = Failed(500, "Web3 connection lost", req.calls)
            /\ req' = NoReq
       ELSE LET allow == AllowanceOf(TokenAddress(req.currency), req.caller) IN
            /\ req' = [req EXCEPT !.allowance = allow,
                                  !.pc = IF NeedsApproval(allow, req.task.amount)
                                         THEN "approve" ELSE "fund"]
            /\ resp' = NoResp
    /\ UNCHANGED <<chainVars, storeVars>>

\* 'nonce' of approve_tx
ApproveNonce(count) == count

\* the approve step: estimate_gas, gas price, the transaction count and
\* build_transaction of token.approve(escrow, amount)
FundApprove ==
    /\ req.op = "fund" /\ req.pc = "approve"
    /\ IF ~connected
       THEN /\ resp' = Failed(0, "rpc", req.calls + 1)
            /\ req' = NoReq
       ELSE /\ req' = [req EXCEPT
                   !.pc = "fund",
                   !.calls = @ + 4,
                   !.instructions = Append(@,
                       Descriptor(1, "approve", TokenAddress(req.currency), req.caller,
                                  0, 0, ApproveNonce(TxCountOf(req.caller)),
                                  CONTRACT_ADDRESS, req.task.amount))]
            /\ resp' = NoResp
    /\ txCount' = IF resp'.detail = "" THEN BuildTransaction(req.caller) ELSE txCount
    /\ UNCHANGED <<w3init, connected, tasks, taskCounter, allowance, storeVars>>

\* 'nonce' of fund_tx: get_transaction_count(...) + (1 if allowance < amount else 0)
FundNonce(count, allow, amount) == count + (IF NeedsApproval(allow, amount) THEN 1 ELSE 0)

\* a fund instruction that is always numbered as the second step
FundStepTwo(allow, amount) == 2

\* "step": 2 if allowance < amount else 1
FundStep(allow, amount) == IF NeedsApproval(allow, amount) THEN 2 ELSE 1

\* the fund step of the token path: estimate_gas without value, gas price,
\* the transaction count and build_transaction of fundTask(task_id)
FundFinish ==
    /\ req.op = "fund" /\ req.pc = "fund"
    /\ req' = NoReq
    /\ resp' =
         IF ~connected THEN Failed(0, "rpc", req.calls + 1)
         ELSE IF ~FundTaskOk(req.caller, req.task_id, 0)
         THEN Reverted(0, FundTaskRevert(req.caller, req.task_id, 0), req.calls + 1)
         ELSE Answered(Append(req.instructions,
                          Descriptor(FundStep(req.allowance, req.task.amount), "fundTask",
                                     CONTRACT_ADDRESS, req.caller, 0, 0,
                                     FundNonce(TxCountOf(req.caller), req.allowance,
                                               req.task.amount),
                                     <<>>, req.task_id)),
                       req.calls + 4)
    /\ txCount' = IF resp'.detail = "" THEN BuildTransaction(req.caller) ELSE txCount
    /\ UNCHANGED <<w3init, connected, tasks, taskCounter, allowance, storeVars>>

\* POST /tasks/{task_id}/deliver, up to the checks
DeliverBegin(token, t) ==
    LET auth  == Auth(token)
        task  == GetTaskCall(t)
        guard == DeliverGuard(task, auth.user.wallet_address)
    IN  BeginTaskRequest("deliver", token, t, auth, task, guard, GuardDetail(guard), "build")

\* POST /tasks/{task_id}/approve, up to the checks
ApproveBegin(token, t) ==
    LET auth  == Auth(token)
        task  == GetTaskCall(t)
        guard == ApproveGuard(task, auth.user.wallet_address)
    IN  BeginTaskRequest("approve", token, t, auth, task, guard, GuardDetail(guard), "build")

BuildSingleUnsimulated(fn, simulates) ==
    /\ req' = NoReq
    /\ resp' =
         IF ~connected THEN Failed(0, "rpc", req.calls + 1)
         ELSE Answered(<<Descriptor(0, fn, CONTRACT_ADDRESS, req.caller, 0, 0,
                                    TxCountOf(req.caller), <<>>, req.task_id)>>,
                       req.calls + 4)
    /\ txCount' = IF resp'.detail = "" THEN BuildTransaction(req.caller) ELSE txCount
    /\ UNCHANGED <<w3init, connected, tasks, taskCounter, allowance, storeVars>>

\* estimate_gas, gas price, the transaction count and build_transaction of a
\* call without value
BuildSingle(fn, simulates) ==
    /\ req' = NoReq
    /\ resp' =
         IF ~connected THEN Failed(0, "rpc", req.calls + 1)
         ELSE IF ~simulates
         THEN Reverted(0, IF fn = "markDelivered"
                          THEN MarkDeliveredRevert(req.caller, req.task_id)
                          ELSE ApproveTaskRevert(req.caller, req.task_id),
                       req.calls + 1)
         ELSE Answered(<<Descriptor(0, fn, CONTRACT_ADDRESS, req.caller, 0, 0,
                                    TxCountOf(req.caller), <<>>, req.task_id)>>,
                       req.calls + 4)
    /\ txCount' = IF resp'.detail = "" THEN BuildTransaction(req.caller) ELSE txCount
    /\ UNCHANGED <<w3init, connected, tasks, taskCounter, allowance, storeVars>>

\* the rest of mark_delivered_instructions
DeliverBuild ==
    /\ req.op = "deliver" /\ req.pc = "build"
    /\ BuildSingle("markDelivered", MarkDeliveredOk(req.caller, req.task_id))

\* the rest of approve_task_instructions
ApproveBuild ==
    /\ req.op = "approve" /\ req.pc = "build"
    /\ BuildSingle("approveTask", ApproveTaskOk(req.caller, req.task_id))

MetadataGuardOpen(task, caller) == 0

\* the check of update_task_metadata
MetadataGuard(task, caller) ==
    IF Lower(task.client) # Lower(caller) THEN 403 ELSE 0

\* task_metadata_db[task_id] = {...}
PutMetadata(db, t, title, currency) ==
    [k \in DOMAIN db \cup {t} |->
        IF k = t THEN [title |-> title, currency |-> currency] ELSE db[k]]

\* an update that stores the entry before it checks the caller
RefusedMetadataStored(db, t, title, currency) == PutMetadata(db, t, title, currency)

\* the raise of get_current_user, get_escrow_contract, getTask or the client
\* check comes before the assignment: the store is as it was
RefusedMetadata(db, t, title, currency) == db

\* POST /tasks/{task_id}/metadata
UpdateMetadata(token, t, title, currency) ==
    LET auth    == Auth(token)
        task    == GetTaskCall(t)
        guard   == MetadataGuard(task, auth.user.wallet_address)
        refused == Refused("metadata", token, t, auth, task, guard, "role")
    IN
    /\ Idle
    /\ Fits(auth.users)
    /\ users_db' = auth.users
    /\ nextUid' = auth.uid
    /\ IF refused # NoResp
       THEN /\ resp' = refused
            /\ task_metadata_db' = RefusedMetadata(task_metadata_db, t, title, currency)
       ELSE /\ task_metadata_db' = PutMetadata(task_metadata_db, t, title, currency)
            /\ resp' = [NoResp EXCEPT !.op = "metadata", !.code = 200, !.input = token,
                                      !.caller = auth.user.wallet_address,
                                      !.task_id = t, !.task = task, !.read = TRUE,
                                      !.currency = currency, !.stored = TRUE]
    /\ UNCHANGED <<chainVars, req>>

\* the check of get_task: the caller is the client or the freelancer
ViewGuard(task, caller) ==
    IF Lower(caller) \notin {Lower(task.client), Lower(task.freelancer)} THEN 403 ELSE 0

\* GET /tasks/{task_id}
GetTask(token, t) ==
    LET auth    == Auth(token)
        task    == GetTaskCall(t)
        guard   == ViewGuard(task, auth.user.wallet_address)
        refused == Refused("get_task", token, t, auth, task, guard, "role")
    IN
    /\ Idle
    /\ Fits(auth.users)
    /\ users_db' = auth.users
    /\ nextUid' = auth.uid
    /\ resp' = IF refused # NoResp THEN refused
               ELSE [NoResp EXCEPT !.op = "get_task", !.code = 200, !.input = token,
                                   !.caller = auth.user.wallet_address,
                                   !.task_id = t, !.task = task, !.read = TRUE,
                                   !.currency = CurrencyOf(t)]
    /\ UNCHANGED <<chainVars, task_metadata_db, req>>

----------------------------------------------------------------------------
(* POST /tasks/create.  A deadline is "past" or "future" with respect to   *)
(* the block the simulation runs in.                                       *)

\* class TaskCreate, amount: Decimal = Field(..., gt=0); the status of the
\* request that does not validate, 0 = the body is accepted
BodyError(amount) == IF amount.digits = <<>> THEN 422 ELSE 0

AmountWeiAllEther(currency, amount) == ether_to_wei(amount)

\* amount_wei: the amount in the units of the currency
AmountWei(currency, amount) ==
    IF currency = "AVAX" THEN ether_to_wei(amount)
    ELSE token_to_base_unit(amount, TokenDecimals)

\* the require statements of createTask: estimate_gas succeeds
CreateTaskOk(freelancer, amount, deadline) ==
    /\ Lower(freelancer) # ZERO_ADDRESS
    /\ amount # <<>>
    /\ deadline = "future"

\* the message of the require on which createTask reverts, "" if none
CreateTaskRevert(freelancer, amount, deadline) ==
    IF Lower(freelancer) = ZERO_ADDRESS THEN "Invalid freelancer"
    ELSE IF amount = <<>> THEN "Amount must be positive"
    ELSE IF deadline # "future" THEN "Invalid deadline"
    ELSE ""

\* contract.functions.createTask(freelancer_address, amount_wei,
\* token_address, deadline_timestamp)
CreateTaskCall(freelancer, amount, token, deadline) ==
    [freelancer |-> freelancer, amount |-> amount, token |-> token,
     deadline |-> deadline]

\* create_task_instructions up to the function call object: the bearer
\* dependency, the validation of the body, the address check,
\* get_escrow_contract and the conversion of the amount
CreateBegin(token, freelancer_address, amount, currency, deadline) ==
    LET auth   == Auth(token)
        caller == auth.user.wallet_address
        input  == [NoResp EXCEPT !.op = "create", !.input = token, !.amount = amount,
                                 !.currency = currency, !.deadline = deadline,
                                 !.freelancer_address = freelancer_address]
        refuse(raised, code, detail) ==
            [input EXCEPT !.raised = raised, !.code = code, !.detail = detail,
                          !.caller = caller]
    IN
    /\ Idle
    /\ Fits(auth.users)
    /\ users_db' = auth.users
    /\ nextUid' = auth.uid
    /\ IF auth.error # 0
       THEN /\ resp' = [input EXCEPT !.raised = auth.error, !.code = auth.error,
                                     !.detail = "Invalid wallet address"]
            /\ req' = req
       ELSE IF BodyError(amount) # 0
       THEN /\ resp' = refuse(BodyError(amount), BodyError(amount), "validation")
            /\ req' = req
       ELSE IF ~w3init \/ ~IsAddress(freelancer_address)
       THEN /\ resp' = refuse(400, HandlerExcept(400), "Invalid freelancer address")
            /\ req' = req
       ELSE IF EscrowError # 0
       THEN /\ resp' = refuse(EscrowError, HandlerExcept(EscrowError),
                              "Web3 not connected")
            /\ req' = req
       ELSE /\ resp' = NoResp
            /\ req' = [NoReq EXCEPT !.op = "create", !.pc = "estimate",
                                    !.input = token, !.caller = caller,
                                    !.currency = currency, !.amount = amount,
                                    !.base = AmountWei(currency, amount),
                                    !.freelancer_address = freelancer_address,
                                    !.deadline = deadline]
    /\ UNCHANGED <<chainVars, task_metadata_db>>

\* estimate_gas({'from': wallet_address}) and w3.eth.gas_price; whatever
\* they raise is raised again as 400 "Transaction simulation failed"
CreateEstimate ==
    /\ req.op = "create" /\ req.pc = "estimate"
    /\ IF ~connected
       THEN /\ resp' = Failed(400, "rpc", req.calls + 1)
            /\ req' = NoReq
       ELSE IF ~CreateTaskOk(req.freelancer_address, req.base, req.deadline)
       THEN /\ resp' = Reverted(400, CreateTaskRevert(req.freelancer_address, req.base,
                                                      req.deadline),
                                req.calls + 1)
            /\ req' = NoReq
       ELSE /\ resp' = NoResp
            /\ req' = [req EXCEPT !.pc = "build", !.calls = req.calls + 2]
    /\ UNCHANGED <<chainVars, storeVars>>

\* a create that files the metadata of its request under the next task id
EchoMetadataStored(db, currency) == PutMetadata(db, taskCounter + 1, "t1", currency)

\* "task_metadata": {...} is a part of the answer only; the store is not
\* written by create_task_instructions
EchoMetadata(db, currency) == db

\* get_transaction_count(wallet_address), build_transaction and the answer
CreateBuild ==
    /\ req.op = "create" /\ req.pc = "build"
    /\ req' = NoReq
    /\ resp' =
         IF ~connected THEN Failed(0, "rpc", req.calls + 1)
         ELSE Answered(<<Descriptor(0, "createTask", CONTRACT_ADDRESS, req.caller, 0, 0,
                                    TxCountOf(req.caller), <<>>,
                                    CreateTaskCall(req.freelancer_address, req.base,
                                                   TokenAddress(req.currency),
                                                   req.deadline))>>,
                       req.calls + 2)
    /\ txCount' = IF resp'.detail = "" THEN BuildTransaction(req.caller) ELSE txCount
    /\ task_metadata_db' = EchoMetadata(task_metadata_db, req.currency)
    /\ UNCHANGED <<w3init, connected, tasks, taskCounter, allowance, users_db, nextUid>>

----------------------------------------------------------------------------
(* GET /users/profile.  Which calls to the gateway fail is the choice of   *)
(* the environment: `fail` names the lookups whose call raises, and a      *)
(* gateway that is down fails them all.                                    *)

Lookups == {"client", "freelancer", "AVAX", "USDC", "USDT"}

\* clientTasks[_client], freelancerTasks[_freelancer]
TasksOf(role, a) ==
    SelectSeq([i \in 1..taskCounter |-> i], LAMBDA t : tasks[t][role] = Lower(a))

getClientTasks(a) == TasksOf("client", a)

getFreelancerTasks(a) == TasksOf("freelancer", a)

\* the lookups that do not succeed when the calls named in `fail` raise
FailedLookups(fail) ==
    fail \cup (IF EscrowError # 0 THEN {"client", "freelancer"} ELSE {})
         \cup (IF ~w3init \/ ~connected THEN {"AVAX", "USDC", "USDT"} ELSE {})

\* the default "0"
Str0 == <<<<"0", 1>>>>

TaskListShared(lookup, failed, list) ==
    IF failed \cap {"client", "freelancer"} # {} THEN <<>> ELSE list

\* client_tasks, freelancer_tasks: [] unless the call returns
TaskList(lookup, failed, list) == IF lookup \in failed THEN <<>> ELSE list

\* balances["AVAX"]: "0" unless get_balance returns
NativeBalance(failed, wei) ==
    IF "AVAX" \in failed THEN Str0 ELSE DecStr(wei_to_ether(wei))

\* balances[currency] of a stablecoin: "0" unless balanceOf returns
TokenBalance(currency, failed, base) ==
    IF currency \in failed THEN Str0
    ELSE DecStr(base_unit_to_token(base, TokenDecimals))

\* GET /users/profile
GetUserProfile(token, fail, chain) ==
    LET auth   == Auth(token)
        caller == auth.user.wallet_address
        failed == FailedLookups(fail)
    IN
    /\ Idle
    /\ Fits(auth.users)
    /\ users_db' = auth.users
    /\ nextUid' = auth.uid
    /\ resp' =
         IF auth.error # 0
         THEN [NoResp EXCEPT !.op = "profile", !.code = auth.error,
                             !.raised = auth.error, !.input = token,
                             !.detail = "Invalid wallet address"]
         ELSE [NoResp EXCEPT
                 !.op = "profile", !.code = 200, !.input = token, !.caller = caller,
                 !.user_id = auth.user.id, !.failed = failed, !.chain = chain,
                 !.client_tasks = TaskList("client", failed, getClientTasks(caller)),
                 !.freelancer_tasks =
                     TaskList("freelancer", failed, getFreelancerTasks(caller)),
                 !.wallet_balances =
                     Balances(NativeBalance(failed, chain.AVAX),
                              TokenBalance("USDC", failed, chain.USDC),
                              TokenBalance("USDT", failed, chain.USDT))]
    /\ UNCHANGED <<chainVars, task_metadata_db, req>>

----------------------------------------------------------------------------
(* GET /health and GET /network/health.  `fail` names the calls that raise *)
(* although the gateway is up.  A response tells which dependencies were   *)
(* checked and which were reported healthy, connected or accessible.       *)

\* w3 and w3.is_connected()
GatewayUp == w3init /\ connected

\* GET /health
HealthCheck(fail) ==
    LET web3     == GatewayUp
        reads    == web3 /\ "block_number" \notin fail
        contract == reads /\ EscrowError = 0 /\ "taskCounter" \notin fail
    IN
    /\ Idle
    /\ resp' = [NoResp EXCEPT
                  !.op = "health", !.code = 200, !.failed = fail,
                  !.checked = {"web3"} \cup (IF reads THEN {"contract"} ELSE {}),
                  !.healthy = (IF web3 THEN {"web3"} ELSE {})
                              \cup (IF contract THEN {"contract"} ELSE {})]
    /\ UNCHANGED <<chainVars, storeVars, req>>

\* get_token_contract(currency) and decimals().call() return
TokenAccessible(currency, fail) == GatewayUp /\ currency \notin fail

\* GET /network/health
NetworkHealth(fail) ==
    LET contract == GatewayUp /\ "taskCounter" \notin fail IN
    /\ Idle
    /\ resp' = [NoResp EXCEPT
                  !.op = "network_health", !.code = 200, !.failed = fail,
                  !.checked = {"web3", "contract", "USDC", "USDT"},
                  !.healthy = (IF GatewayUp THEN {"web3"} ELSE {})
                              \cup (IF contract THEN {"contract"} ELSE {})
                              \cup {c \in {"USDC", "USDT"} : TokenAccessible(c, fail)}]
    /\ UNCHANGED <<chainVars, storeVars, req>>

----------------------------------------------------------------------------
(* The GET routes under /tasks.  The router tries the routes in the order  *)
(* of their registration and hands the request to the first whose path     *)
(* matches; a path parameter matches any segment that is not empty.        *)

\* a route: its path, with a parameter or a literal as second segment
Route(head, param, literal, endpoint) ==
    [head |-> head, param |-> param, literal |-> literal, endpoint |-> endpoint]

\* the segment "my"
SegMy == <<<<"m", 1>>, <<"y", 1>>>>

\* @app.get("/tasks/{task_id}"), then @app.get("/tasks/my")
GetRoutes ==
    <<Route("tasks", TRUE, <<>>, "get_task"),
      Route("tasks", FALSE, SegMy, "get_my_tasks")>>

\* the path matches the route
Matches(route, path) ==
    /\ route.head = path.head
    /\ IF route.param THEN path.tail # <<>> ELSE route.literal = path.tail

\* the endpoint of the first route of the table that matches
RECURSIVE FirstMatch(_, _)
FirstMatch(routes, path) ==
    IF routes = <<>> THEN "none"
    ELSE IF Matches(routes[1], path) THEN routes[1].endpoint
    ELSE FirstMatch(Tail(routes), path)

Dispatch(path) == FirstMatch(GetRoutes, path)

\* task_id: int accepts the segment
IsInt(seg) == seg # <<>> /\ AllIn(seg, Digits)

\* int(seg)
RECURSIVE IntVal(_)
IntVal(seg) ==
    IF seg = <<>> THEN 0
    ELSE IntVal(Take(seg, StrLen(seg) - 1)) * 10 + DigitVal(CharAt(seg, StrLen(seg)))

\* list(set(client_task_ids + freelancer_task_ids))
AllTaskIds(client_task_ids, freelancer_task_ids) ==
    SelectSeq([i \in 1..taskCounter |-> i],
              LAMBDA t : \/ \E i \in 1..Len(client_task_ids) : client_task_ids[i] = t
                         \/ \E i \in 1..Len(freelancer_task_ids) :
                               freelancer_task_ids[i] = t)

\* task_info: the id and the user_role of a task of the caller
TaskInfo(t, caller) ==
    [id |-> TaskAt(t).id,
     user_role |-> IF Lower(TaskAt(t).client) = Lower(caller) THEN "client"
                   ELSE "freelancer"]

\* get_my_tasks
GetMyTasks(token, path, fail) ==
    LET auth   == Auth(token)
        caller == auth.user.wallet_address
        failed == fail \cup (IF EscrowError # 0 THEN {"client", "freelancer"} ELSE {})
        ids    == AllTaskIds(TaskList("client", failed, getClientTasks(caller)),
                             TaskList("freelancer", failed, getFreelancerTasks(caller)))
    IN
    /\ Idle
    /\ Fits(auth.users)
    /\ users_db' = auth.users
    /\ nextUid' = auth.uid
    /\ resp' =
         IF auth.error # 0
         THEN [NoResp EXCEPT !.op = "GET", !.path = path, !.endpoint = "get_my_tasks",
                             !.code = auth.error, !.raised = auth.error,
                             !.input = token, !.detail = "Invalid wallet address"]
         ELSE [NoResp EXCEPT !.op = "GET", !.path = path, !.endpoint = "get_my_tasks",
                             !.code = 200, !.input = token, !.caller = caller,
                             !.failed = failed,
                             !.tasks = [i \in 1..Len(ids) |-> TaskInfo(ids[i], caller)]]
    /\ UNCHANGED <<chainVars, task_metadata_db, req>>

\* a request whose path parameter does not validate: the dependencies of
\* the endpoint run, then the request is answered 422
Unprocessable(token, path, endpoint) ==
    LET auth == Auth(token) IN
    /\ Idle
    /\ Fits(auth.users)
    /\ users_db' = auth.users
    /\ nextUid' = auth.uid
    /\ resp' =
         IF auth.error # 0
         THEN [NoResp EXCEPT !.op = "GET", !.path = path, !.endpoint = endpoint,
                             !.code = auth.error, !.raised = auth.error,
                             !.input = token, !.detail = "Invalid wallet address"]
         ELSE [NoResp EXCEPT !.op = "GET", !.path = path, !.endpoint = endpoint,
                             !.code = 422, !.raised = 422, !.input = token,
                             !.caller = auth.user.wallet_address,
                             !.detail = "validation"]
    /\ UNCHANGED <<chainVars, task_metadata_db, req>>

\* GET /tasks/<segment>
Get(token, path, fail) ==
    LET endpoint == Dispatch(path) IN
    IF endpoint = "get_task"
    THEN IF IsInt(path.tail) THEN GetTask(token, IntVal(path.tail))
         ELSE Unprocessable(token, path, endpoint)
    ELSE IF endpoint = "get_my_tasks" THEN GetMyTasks(token, path, fail)
    ELSE /\ Idle
         /\ resp' = [NoResp EXCEPT !.op = "GET", !.path = path, !.code = 404,
                                   !.input = token]
         /\ UNCHANGED <<chainVars, storeVars, req>>

----------------------------------------------------------------------------

Init ==
    /\ w3init \in BOOLEAN
    /\ connected = w3init
    /\ tasks = [t \in TaskIds |-> ZeroTask]
    /\ taskCounter = 0
    /\ txCount = [w \in Wallets |-> 0]
    /\ allowance = [w \in Wallets |-> [k \in TokenAddrs |-> 0]]
    /\ users_db = <<>>
    /\ task_metadata_db = <<>>
    /\ nextUid = 1
    /\ req = NoReq
    /\ resp = NoResp

\* the user directory alone: registration and bearer resolution
NextUsers ==
    \/ \E a \in AddressInputs : ResolveBearer(a)
    \/ \E a \in AddressInputs : RegisterUser(a, "none", FALSE)
    \/ \E a \in AddressInputs : RegisterUser(a, "e1", TRUE)

SpecUsers == Init /\ [][NextUsers]_vars

\* task ids requests ask for: the last one is never assigned by the contract
QueryIds == 1..(MaxTasks + 1)

\* bearer tokens of the task routes: the client (in checksum spelling), the
\* other wallet and the zero address
Callers == {MixedA, WalletB, ZERO_ADDRESS}

\* the lifecycle of a native-coin task and the three guarded routes, while
\* the RPC endpoint comes and goes
NextGuard ==
    \/ ChainCreateTask(WalletA, WalletB, 1, ZERO_ADDRESS)
    \/ \E t \in TaskIds : ChainFundTask(WalletA, t)
    \/ \E t \in TaskIds : ChainApproveTask(WalletA, t)
    \/ \E t \in TaskIds : ChainSideExit(t)
    \/ ConnToggle
    \/ \E c \in Callers, t \in QueryIds : FundBegin(c, t)
    \/ FundNative
    \/ \E c \in Callers, t \in QueryIds : DeliverBegin(c, t)
    \/ DeliverBuild
    \/ \E c \in Callers, t \in QueryIds : ApproveBegin(c, t)
    \/ ApproveBuild

SpecGuard == Init /\ [][NextGuard]_vars

\* the same lifecycle and the metadata store: updates and reads of metadata
NextMeta ==
    \/ ChainCreateTask(WalletA, WalletB, 1, ZERO_ADDRESS)
    \/ \E t \in TaskIds : ChainFundTask(WalletA, t)
    \/ \E t \in TaskIds : ChainApproveTask(WalletA, t)
    \/ \E t \in TaskIds : ChainSideExit(t)
    \/ \E c \in Callers, t \in QueryIds : UpdateMetadata(c, t, "t1", "AVAX")
    \/ \E c \in Callers, t \in QueryIds : GetTask(c, t)

SpecMeta == Init /\ [][NextMeta]_vars

\* every route that reads one task id, for tasks of either freelancer
NextRoutes ==
    \/ \E f \in Wallets : ChainCreateTask(WalletA, f, 1, ZERO_ADDRESS)
    \/ \E t \in TaskIds : ChainFundTask(WalletA, t)
    \/ \E t \in TaskIds : ChainApproveTask(WalletA, t)
    \/ \E t \in TaskIds : ChainSideExit(t)
    \/ ConnToggle
    \/ \E c \in Callers, t \in QueryIds : FundBegin(c, t)
    \/ FundNative
    \/ \E c \in Callers, t \in QueryIds : DeliverBegin(c, t)
    \/ DeliverBuild
    \/ \E c \in Callers, t \in QueryIds : ApproveBegin(c, t)
    \/ ApproveBuild
    \/ \E c \in Callers, t \in QueryIds : UpdateMetadata(c, t, "t1", "AVAX")
    \/ \E c \in Callers, t \in QueryIds : GetTask(c, t)

SpecRoutes == Init /\ [][NextRoutes]_vars

\* amounts of tasks and of token approvals
Amounts == 1..MaxAmount

\* the funding of one client's tasks, native or stablecoin, while the client's
\* wallet keeps sending transactions of its own
NextFund ==
    \/ \E a \in Amounts, k \in {ZERO_ADDRESS, USDC_ADDRESS} :
          ChainCreateTask(WalletA, WalletB, a, k)
    \/ \E a \in 0..MaxAmount : ChainApproveToken(WalletA, USDC_ADDRESS, a)
    \/ \E t \in TaskIds : ChainFundTask(WalletA, t)
    \/ ChainSendTx(WalletA)
    \/ \E t \in TaskIds, c \in {"AVAX", "USDC"} : UpdateMetadata(MixedA, t, "t1", c)
    \/ \E c \in {MixedA, WalletB}, t \in TaskIds : FundBegin(c, t)
    \/ FundNative
    \/ FundAllowance
    \/ FundApprove
    \/ FundFinish

SpecFund == Init /\ [][NextFund]_vars

\* amounts a request asks for: none, one that is less than a base unit of
\* a stablecoin, and one that is more
CreateAmounts ==
    {DecZero, Amount("0", "0", TokenDecimals, <<<<"5", 1>>>>),
     Amount("1", "0", TokenDecimals, <<<<"5", 1>>>>)}

\* the create route beside a chain on which the caller sends transactions
NextCreate ==
    \/ ChainSendTx(WalletA)
    \/ ConnToggle
    \/ \E c \in {MixedA, Addr("g")}, f \in {WalletB, ZERO_ADDRESS, Addr("g")},
          a \in CreateAmounts, cur \in {"AVAX", "USDC", "USDT"},
          d \in {"past", "future"} : CreateBegin(c, f, a, cur, d)
    \/ CreateEstimate
    \/ CreateBuild

SpecCreate == Init /\ [][NextCreate]_vars

\* what the chain answers for the balances of a wallet
BalanceInputs ==
    {Balances(Shift(<<<<"2", 1>>>>, EtherDecimals), Shift(<<<<"1", 1>>, <<"5", 1>>>>, 5),
              <<<<"1", 1>>>>),
     Balances(<<<<"1", 1>>>>, <<>>, Shift(<<<<"3", 1>>>>, TokenDecimals))}

\* the profile route beside a chain on which tasks are created
NextProfile ==
    \/ \E c \in Wallets, f \in Wallets : ChainCreateTask(c, f, 1, ZERO_ADDRESS)
    \/ ConnToggle
    \/ \E fail \in SUBSET Lookups, chain \in BalanceInputs :
          GetUserProfile(MixedA, fail, chain)

SpecProfile == Init /\ [][NextProfile]_vars

\* the two health routes beside a gateway that goes up and down
NextHealth ==
    \/ ConnToggle
    \/ \E fail \in SUBSET {"block_number", "taskCounter"} : HealthCheck(fail)
    \/ \E fail \in SUBSET {"block_number", "chain_id", "gas_price", "taskCounter",
                           "USDC", "USDT"} : NetworkHealth(fail)

SpecHealth == Init /\ [][NextHealth]_vars

\* the paths requests ask for
PathInputs ==
    {Path("tasks", NatOf(t)) : t \in QueryIds}
        \cup {Path("tasks", SegMy), Path("task", SegMy)}

\* the GET routes under /tasks beside a chain on which tasks are created
NextMy ==
    \/ \E c \in Wallets, f \in Wallets : ChainCreateTask(c, f, 1, ZERO_ADDRESS)
    \/ ConnToggle
    \/ \E c \in {MixedA, WalletB}, path \in PathInputs,
          fail \in SUBSET {"client", "freelancer"} : Get(c, path, fail)

SpecMy == Init /\ [][NextMy]_vars

\* every route of the API beside a chain on which the client creates and
\* funds tasks, by itself
NextFrame ==
    \/ \E k \in {ZERO_ADDRESS, USDC_ADDRESS} : ChainCreateTask(WalletA, WalletB, 1, k)
    \/ \E t \in TaskIds : ChainFundTask(WalletA, t)
    \/ ResolveBearer(WalletB)
    \/ RegisterUser(MixedA, "none", FALSE)
    \/ \E chain \in BalanceInputs : GetUserProfile(MixedA, {}, chain)
    \/ \E cur \in {"AVAX", "USDC"} :
          CreateBegin(MixedA, WalletB, Amount("1", "5", 1, <<>>), cur, "future")
    \/ CreateEstimate
    \/ CreateBuild
    \/ \E t \in TaskIds, cur \in {"AVAX", "USDC"} : UpdateMetadata(MixedA, t, "t1", cur)
    \/ \E t \in TaskIds : FundBegin(MixedA, t)
    \/ FundNative
    \/ FundAllowance
    \/ FundApprove
    \/ FundFinish
    \/ \E t \in TaskIds : DeliverBegin(WalletB, t)
    \/ DeliverBuild
    \/ \E t \in TaskIds : ApproveBegin(MixedA, t)
    \/ ApproveBuild
    \/ \E path \in PathInputs : Get(WalletB, path, {})
    \/ HealthCheck({})
    \/ NetworkHealth({})

SpecFrame == Init /\ [][NextFrame]_vars

\* the continuation of a request that has passed its checks: every step is
\* a group of calls through the provider, and is taken when they come back
HandlerSteps ==
    \/ HTTPProvider(connected) /\ CreateEstimate
    \/ HTTPProvider(connected) /\ CreateBuild
    \/ HTTPProvider(connected) /\ FundNative
    \/ HTTPProvider(connected) /\ FundAllowance
    \/ HTTPProvider(connected) /\ FundApprove
    \/ HTTPProvider(connected) /\ FundFinish
    \/ HTTPProvider(connected) /\ DeliverBuild
    \/ HTTPProvider(connected) /\ ApproveBuild

\* the instruction routes beside an endpoint that stops and resumes answering
\* at any moment, on a chain where tasks are created and funded
NextLive ==
    \/ \E k \in {ZERO_ADDRESS, USDC_ADDRESS} : ChainCreateTask(WalletA, WalletB, 1, k)
    \/ \E t \in TaskIds : ChainFundTask(WalletA, t)
    \/ ConnToggle
    \/ \E t \in TaskIds : UpdateMetadata(MixedA, t, "t1", "USDC")
    \/ CreateBegin(MixedA, WalletB, Amount("1", "5", 1, <<>>), "AVAX", "future")
    \/ \E t \in TaskIds : FundBegin(MixedA, t)
    \/ \E t \in TaskIds : DeliverBegin(WalletB, t)
    \/ \E t \in TaskIds : ApproveBegin(MixedA, t)
    \/ HandlerSteps

\* a handler is a coroutine without a point of suspension: once the server
\* has started it, its statements run one after the other, so a step that can
\* be taken is taken
SpecLive == Init /\ [][NextLive]_vars /\ WF_vars(HandlerSteps)

\* bearer tokens and addresses, well formed and not
ErrAddresses == {MixedA, WalletB, Addr("g"), <<>>}

\* the routes that write a store, and fund-instructions and the task view
\* beside them, asked with good and bad credentials for tasks that exist and
\* tasks that do not, while the endpoint comes and goes
NextErr ==
    \/ ChainCreateTask(WalletA, WalletB, 1, ZERO_ADDRESS)
    \/ \E t \in TaskIds : ChainFundTask(WalletA, t)
    \/ ConnToggle
    \/ \E a \in ErrAddresses : ResolveBearer(a)
    \/ \E a \in ErrAddresses : RegisterUser(a, "e1", TRUE)
    \/ \E c \in ErrAddresses, t \in QueryIds : UpdateMetadata(c, t, "t1", "USDC")
    \/ \E c \in {MixedA, WalletB}, t \in QueryIds : FundBegin(c, t)
    \/ FundNative
    \/ FundAllowance
    \/ FundApprove
    \/ FundFinish
    \/ \E t \in QueryIds : GetTask(WalletB, t)

SpecErr == Init /\ [][NextErr]_vars

\* the four instruction routes and the task view beside a chain on which
\* tasks are created,
\* paid in coin or in USDC, funded and abandoned
NextSim ==
    \/ \E k \in {ZERO_ADDRESS, USDC_ADDRESS} : ChainCreateTask(WalletA, WalletB, 1, k)
    \/ ChainApproveToken(WalletA, USDC_ADDRESS, 1)
    \/ \E t \in TaskIds : ChainFundTask(WalletA, t)
    \/ \E t \in TaskIds : ChainSideExit(t)
    \/ \E t \in TaskIds : UpdateMetadata(MixedA, t, "t1", "USDC")
    \/ \E f \in {WalletB, ZERO_ADDRESS}, a \in CreateAmounts \ {DecZero},
          d \in {"past", "future"} : CreateBegin(MixedA, f, a, "USDC", d)
    \/ CreateEstimate
    \/ CreateBuild
    \/ \E t \in TaskIds : FundBegin(MixedA, t)
    \/ FundNative
    \/ FundAllowance
    \/ FundApprove
    \/ FundFinish
    \/ \E t \in TaskIds : DeliverBegin(WalletB, t)
    \/ DeliverBuild
    \/ \E t \in TaskIds : ApproveBegin(MixedA, t)
    \/ ApproveBuild
    \/ \E t \in TaskIds : GetTask(MixedA, t)

SpecSim == Init /\ [][NextSim]_vars

----------------------------------------------------------------------------
(* The unit conversions on their own: an amount and a number of decimals   *)
(* are given, the amount is converted to base units and back.              *)

AmountInputs ==
    { Amount(int, f, k, last) :
        int \in {"0", "1", "9"}, f \in {"0", "5", "9"}, k \in 0..MaxFrac,
        last \in {<<>>, <<<<"1", 1>>>>, <<<<"5", 1>>>>} }

DecimalsInputs == {0, TokenDecimals, EtherDecimals}

InitConvert ==
    /\ w3init = TRUE
    /\ connected = TRUE
    /\ tasks = [t \in TaskIds |-> ZeroTask]
    /\ taskCounter = 0
    /\ txCount = [w \in Wallets |-> 0]
    /\ allowance = [w \in Wallets |-> [k \in TokenAddrs |-> 0]]
    /\ users_db = <<>>
    /\ task_metadata_db = <<>>
    /\ nextUid = 1
    /\ \E a \in AmountInputs, d \in DecimalsInputs, fn \in {"token", "ether"} :
          /\ fn = "ether" => d = EtherDecimals
          /\ req = [NoReq EXCEPT !.op = fn, !.pc = "to_base", !.amount = a,
                                 !.decimals = d]
    /\ resp = NoResp

\* token_to_base_unit(amount, decimals)
TokenToBaseUnit ==
    /\ req.op = "token" /\ req.pc = "to_base"
    /\ LET base == token_to_base_unit(req.amount, req.decimals) IN
       /\ req' = [req EXCEPT !.pc = "back", !.base = base]
       /\ resp' = [NoResp EXCEPT !.op = "to_base", !.amount = req.amount,
                                 !.decimals = req.decimals, !.base = base]
    /\ UNCHANGED <<chainVars, storeVars>>

\* ether_to_wei(ether_amount)
EtherToWei ==
    /\ req.op = "ether" /\ req.pc = "to_base"
    /\ LET base == ether_to_wei(req.amount) IN
       /\ req' = [req EXCEPT !.pc = "back", !.base = base]
       /\ resp' = [NoResp EXCEPT !.op = "to_base", !.amount = req.amount,
                                 !.decimals = req.decimals, !.base = base]
    /\ UNCHANGED <<chainVars, storeVars>>

\* base_unit_to_token(base_amount, decimals) of the amount converted
BaseUnitToToken ==
    /\ req.op = "token" /\ req.pc = "back"
    /\ req' = [req EXCEPT !.pc = "done"]
    /\ resp' = [NoResp EXCEPT !.op = "from_base", !.amount = req.amount,
                              !.decimals = req.decimals, !.base = req.base,
                              !.back = base_unit_to_token(req.base, req.decimals)]
    /\ UNCHANGED <<chainVars, storeVars>>

\* wei_to_ether(wei_amount) of the amount converted
WeiToEther ==
    /\ req.op = "ether" /\ req.pc = "back"
    /\ req' = [req EXCEPT !.pc = "done"]
    /\ resp' = [NoResp EXCEPT !.op = "from_base", !.amount = req.amount,
                              !.decimals = req.decimals, !.base = req.base,
                              !.back = wei_to_ether(req.base)]
    /\ UNCHANGED <<chainVars, storeVars>>

NextConvert ==
    \/ TokenToBaseUnit
    \/ EtherToWei
    \/ BaseUnitToToken
    \/ WeiToEther

SpecConvert == InitConvert /\ [][NextConvert]_vars

----------------------------------------------------------------------------
(* Properties of the user directory (SpecUsers) *)

\* the keys of a directory that spell `address`, letter case aside
KeysOf(db, address) == {k \in DOMAIN db : Lower(k) = Lower(address)}

\* C9: a registration of an address the directory already holds, in whatever
\* letter case it is presented, answers with the id of the record held and
\* adds nothing; after any successful registration the directory holds
\* exactly one record for the address, the one whose id was returned.
\* Handlers run to completion one after another (async def without await),
\* so concurrent registrations are the two orders of two such steps.
C9_RegisterTwiceSameUser ==
    [][ (resp'.op = "register" /\ resp'.code = 200) =>
          /\ \A k \in KeysOf(users_db, resp'.input) :
                /\ resp'.user_id = users_db[k].id
                /\ users_db' = users_db
          /\ Cardinality(KeysOf(users_db', resp'.input)) = 1
          /\ \A k \in KeysOf(users_db', resp'.input) : users_db'[k].id = resp'.user_id
      ]_vars

\* a registration in another letter case answered with the record an earlier
\* registration created
C9_Witness ==
    /\ resp.op = "register" /\ resp.code = 200 /\ ~resp.created
    /\ resp.input # Lower(resp.input)
    /\ \E k \in DOMAIN users_db :
          /\ Lower(k) = Lower(resp.input)
          /\ users_db[k].is_freelancer
          /\ users_db[k].id = resp.user_id

\* C10: resolving a bearer credential and registering are one get-or-create
\* keyed by the lower-cased address: the first valid presentation creates the
\* record under that key, every later one (either route, any letter case)
\* returns the record unchanged, and no other record is touched.
C10_ResolveGetOrCreate ==
    [][ (resp'.op \in {"auth", "register"} /\ resp'.code = 200) =>
          LET key == Lower(resp'.input) IN
          /\ key \in DOMAIN users_db'
          /\ users_db'[key].id = resp'.user_id
          /\ users_db'[key].wallet_address = key
          /\ IF key \in DOMAIN users_db
             THEN users_db' = users_db /\ ~resp'.created /\ nextUid' = nextUid
             ELSE /\ resp'.created
                  /\ DOMAIN users_db' = DOMAIN users_db \cup {key}
                  /\ \A k \in DOMAIN users_db :
                        users_db'[k] = users_db[k] /\ users_db[k].id # resp'.user_id
      ]_vars

\* a bearer token in checksum spelling resolved to the record an explicit
\* registration created
C10_Witness ==
    /\ resp.op = "auth" /\ resp.code = 200 /\ ~resp.created
    /\ resp.input # Lower(resp.input)
    /\ Lower(resp.input) \in DOMAIN users_db
    /\ users_db[Lower(resp.input)].is_freelancer
    /\ users_db[Lower(resp.input)].id = resp.user_id

----------------------------------------------------------------------------
(* Properties of the guarded routes (SpecGuard, SpecMeta, SpecRoutes) *)

\* the caller of a response is the client / the freelancer of the task read
IsClient(r) == Lower(r.task.client) = Lower(r.caller)

IsFreelancer(r) == Lower(r.task.freelancer) = Lower(r.caller)

\* the guard table: fund needs Created and the client, markDelivered Funded
\* and the freelancer, approve Funded and the client
ValidTriple(r) ==
    CASE r.op = "fund"    -> r.task.status = CREATED /\ IsClient(r)
      [] r.op = "deliver" -> r.task.status = FUNDED /\ IsFreelancer(r)
      [] r.op = "approve" -> r.task.status = FUNDED /\ IsClient(r)
      [] OTHER -> TRUE

\* the caller has the wrong role for the operation
RoleViolation(r) ==
    CASE r.op = "fund"    -> ~IsClient(r)
      [] r.op = "deliver" -> ~IsFreelancer(r)
      [] r.op = "approve" -> ~IsClient(r)
      [] OTHER -> FALSE

GuardedOps == {"fund", "deliver", "approve"}

\* C3: a fund-instructions, deliver or approve request whose (operation,
\* status, role) triple is not in the guard table is refused, and no
\* estimate_gas, gas price, nonce read or build_transaction was made for it;
\* no handler goes on past its checks with such a triple.
C3_InvalidTripleRefusedWithoutCalls ==
    /\ (resp.op \in GuardedOps /\ resp.read /\ ~ValidTriple(resp)) =>
          /\ resp.code # 200
          /\ resp.calls = 0
          /\ resp.instructions = <<>>
    /\ (req.op \in GuardedOps) => (ValidTriple(req) /\ req.calls = 0)

\* approve asked by the client for a task already Completed, refused
C3_Witness ==
    /\ resp.op = "approve" /\ resp.read
    /\ resp.task.id # 0 /\ resp.task.status = COMPLETED /\ IsClient(resp)
    /\ resp.code # 200 /\ resp.calls = 0

\* C4: a wrong-role violation reaches the caller as HTTP 403 and a
\* wrong-status violation as a different status, so the two can be told apart.
C4_RoleAndStatusViolationsDistinct ==
    (resp.op \in GuardedOps /\ resp.read /\ ~ValidTriple(resp)) =>
        IF RoleViolation(resp) THEN resp.code = 403
        ELSE resp.code \notin {200, 403}

\* the five routes that read one task id
TaskReadOps == {"fund", "deliver", "approve", "metadata", "get_task"}

\* C5: a request whose getTask returned the zeroed record (id = 0, client and
\* freelancer the zero address) fails, whoever the caller is, the zero-address
\* bearer included: no descriptor is built, no metadata stored, and no handler
\* goes on with such a record.
C5_ZeroRecordIsNotFound ==
    /\ (resp.op \in TaskReadOps /\ resp.read /\ resp.task.id = 0) =>
          /\ resp.code # 200
          /\ resp.instructions = <<>>
          /\ ~resp.stored
    /\ (req.op \in TaskReadOps) => req.task.id # 0
    /\ \A t \in DOMAIN task_metadata_db : TaskAt(t).id # 0

\* C8: the metadata store changes only in a metadata request whose caller is
\* the client the chain holds for that task when the request is made, and
\* only at that task's entry; a request of anybody else (the freelancer
\* included) leaves the store as it is; the client's request is stored
\* whatever the status of the task.
C8_MetadataOnlyByClient ==
    [][ /\ (task_metadata_db' # task_metadata_db) =>
              /\ resp'.op = "metadata" /\ resp'.code = 200 /\ resp'.stored
              /\ Lower(resp'.caller) = TaskAt(resp'.task_id).client
              /\ DOMAIN task_metadata_db' = DOMAIN task_metadata_db \cup {resp'.task_id}
              /\ \A t \in DOMAIN task_metadata_db :
                    t # resp'.task_id => task_metadata_db'[t] = task_metadata_db[t]
        /\ (resp'.op = "metadata" /\ resp'.read) =>
              IF Lower(resp'.caller) = TaskAt(resp'.task_id).client
              THEN /\ resp'.code = 200 /\ resp'.stored
                   /\ resp'.task_id \in DOMAIN task_metadata_db'
              ELSE /\ resp'.code # 200 /\ ~resp'.stored
                   /\ task_metadata_db' = task_metadata_db
      ]_vars

\* the client's metadata stored for a task that is already Completed
C8_Witness ==
    /\ resp.op = "metadata" /\ resp.code = 200 /\ resp.stored
    /\ resp.task.id # 0 /\ resp.task.status = COMPLETED
    /\ resp.task_id \in DOMAIN task_metadata_db
    /\ Lower(resp.caller) = TaskAt(resp.task_id).client

----------------------------------------------------------------------------
(* Properties of fund-instructions (SpecFund) *)

\* a fund-instructions response of the token path, answered 200
FundTokenAnswer ==
    resp.op = "fund" /\ resp.code = 200 /\ resp.currency # "AVAX"

\* C1: when fund-instructions returns an approve and a fund descriptor, the
\* approve comes first and the fund descriptor's nonce is the approve
\* descriptor's nonce plus 1, whatever the sender's transaction count does
\* while the request is processed.
C1_NoncesContiguous ==
    (FundTokenAnswer /\ Len(resp.instructions) = 2) =>
        /\ resp.instructions[1].fn = "approve"
        /\ resp.instructions[2].fn = "fundTask"
        /\ resp.instructions[2].nonce = resp.instructions[1].nonce + 1

\* C2: on the token path an approve descriptor is returned exactly when the
\* allowance read is below the task amount: then the list is approve at
\* nonce N, fundTask at N + 1; otherwise it is the fundTask descriptor alone,
\* at the sender's transaction count.
C2_ApproveIffAllowanceShort ==
    FundTokenAnswer =>
        IF resp.allowance < resp.task.amount
        THEN /\ Len(resp.instructions) = 2
             /\ resp.instructions[1].fn = "approve"
             /\ resp.instructions[1].step = 1
             /\ resp.instructions[2].fn = "fundTask"
             /\ resp.instructions[2].step = 2
             /\ \E N \in 0..MaxNonce :
                   /\ resp.instructions[1].nonce = N
                   /\ resp.instructions[2].nonce = N + 1
        ELSE /\ Len(resp.instructions) = 1
             /\ resp.instructions[1].fn = "fundTask"
             /\ resp.instructions[1].step = 1
             /\ resp.instructions[1].nonce = TxCountOf(resp.caller)

\* a fund-instructions request of the task's client for a Created task whose
\* currency is the stablecoin the task is held in, answered while the
\* client's allowance to the escrow is 0
FundStableNoAllowance ==
    /\ resp.op = "fund" /\ resp.read /\ connected
    /\ resp.task.id # 0 /\ resp.task.status = CREATED /\ IsClient(resp)
    /\ resp.currency # "AVAX"
    /\ Lower(resp.task.token) = TokenAddress(resp.currency)
    /\ TaskAt(resp.task_id).status = CREATED
    /\ resp.allowance = 0
    /\ AllowanceOf(TokenAddress(resp.currency), resp.caller) = 0

\* C6: such a request succeeds with two descriptors, approve(escrow, A) at
\* nonce N and then fundTask(id) at N + 1 with value 0.
C6_StableAllowanceZeroTwoSteps ==
    FundStableNoAllowance =>
        /\ resp.code = 200
        /\ Len(resp.instructions) = 2
        /\ resp.instructions[1].fn = "approve"
        /\ resp.instructions[1].spender = CONTRACT_ADDRESS
        /\ resp.instructions[1].arg = resp.task.amount
        /\ resp.instructions[2].fn = "fundTask"
        /\ resp.instructions[2].arg = resp.task_id
        /\ resp.instructions[2].value = 0
        /\ resp.instructions[2].nonce = resp.instructions[1].nonce + 1

\* a fund-instructions request of the task's client for a native-coin task
\* that is Created when it is read and when it is answered
FundNativeCreated ==
    /\ resp.op = "fund" /\ resp.read /\ connected
    /\ resp.task.id # 0 /\ resp.task.status = CREATED /\ IsClient(resp)
    /\ resp.currency = "AVAX"
    /\ Lower(resp.task.token) = ZERO_ADDRESS
    /\ TaskAt(resp.task_id).status = CREATED

\* C7: such a request returns exactly one descriptor, fundTask, whose value
\* is the on-chain amount, whose gas was estimated with that value attached
\* and whose nonce is the sender's transaction count; no answer of the native
\* path carries an approve step.
C7_NativeOneDescriptor ==
    /\ FundNativeCreated =>
          /\ resp.code = 200
          /\ Len(resp.instructions) = 1
          /\ resp.instructions[1].fn = "fundTask"
          /\ resp.instructions[1].to = CONTRACT_ADDRESS
          /\ resp.instructions[1].arg = resp.task_id
          /\ resp.instructions[1].value = TaskAt(resp.task_id).amount
          /\ resp.instructions[1].est_value = TaskAt(resp.task_id).amount
          /\ resp.instructions[1].nonce = TxCountOf(resp.caller)
    /\ (resp.op = "fund" /\ resp.code = 200 /\ resp.currency = "AVAX") =>
          \A i \in 1..Len(resp.instructions) : resp.instructions[i].fn # "approve"

\* the largest amount, funded from a wallet that has sent other transactions
C7_Witness ==
    /\ FundNativeCreated /\ resp.code = 200
    /\ Len(resp.instructions) = 1
    /\ resp.instructions[1].value = MaxAmount
    /\ resp.instructions[1].nonce >= 2

----------------------------------------------------------------------------
\* 0x, then 40 hexadecimal digits
WellFormedAddress(s) ==
    /\ StartsWith0x(s)
    /\ StrLen(s) = AddrLen
    /\ AllIn(Drop(s, PrefixLen), HexLower \cup HexUpper)

\* C19: a bearer token or a registration address that is not 0x, 42
\* characters and hexadecimal digits is rejected whatever the state of the
\* gateway, the Web3 client that failed to initialise included, and the
\* directory never holds a record under such an address.
C19_MalformedAddressRejected ==
    /\ (resp.op \in {"auth", "register"} /\ ~WellFormedAddress(resp.input)) =>
          resp.code \notin {0, 200}
    /\ \A k \in DOMAIN users_db : WellFormedAddress(k)

\* C12: GET /tasks/{id} answers with the task only when the caller is its
\* client or its freelancer in any letter case; every other caller gets no
\* task and the status 403.
C12_NonPartyGets403 ==
    LET party == Lower(resp.caller) \in {Lower(resp.task.client),
                                         Lower(resp.task.freelancer)}
    IN  (resp.op = "get_task" /\ resp.read) =>
            /\ resp.code = 200 => party
            /\ ~party => resp.code = 403

\* floor(a * 10 ** d), computed exactly
ExactFloor(a, d) == Unshift(Shift(a.digits, d), a.scale)

\* C17: for every amount a >= 0 and number of decimals d the conversion to
\* base units is floor(a * 10 ** d): it truncates and never rounds up
\* (1.0000005 at 6 decimals is 1000000), and the amount converted back is
\* never more than a.
C17_BaseUnitIsFloor ==
    /\ resp.op = "to_base" => resp.base = ExactFloor(resp.amount, resp.decimals)
    /\ resp.op = "from_base" => DecLeq(resp.back, resp.amount)

----------------------------------------------------------------------------
\* C16: in the create operation every validation error (a freelancer address
\* that is not an address, an amount that is not positive, a deadline in the
\* past) is reported before any write-path call (gas estimation, gas price,
\* nonce read, transaction building) is attempted.
C16_ValidationBeforeWritePath ==
    (/\ resp.op = "create"
     /\ \/ ~IsAddress(resp.freelancer_address)
        \/ resp.amount.digits = <<>>
        \/ resp.deadline = "past") =>
        /\ resp.code \notin {0, 200}
        /\ resp.calls = 0

\* C15: when the gateway is unreachable or the gas price or the nonce cannot
\* be read during create, fund-instructions, deliver or approve, the caller
\* gets a 500-class error: no descriptor and no 4xx status.
C15_ConnectivityIs500 ==
    (/\ resp.op \in {"create", "fund", "deliver", "approve"}
     /\ resp.detail \in {"rpc", "Web3 not connected"}) =>
        /\ resp.code >= 500
        /\ resp.instructions = <<>>

\* the decimals of a currency
DecimalsOf(currency) == IF currency = "AVAX" THEN EtherDecimals ELSE TokenDecimals

\* C20: a create request that succeeds emits exactly one createTask
\* descriptor: its sender is the caller, its nonce the caller's transaction
\* count, its token parameter the zero address exactly when the currency is
\* the native coin and the configured USDC or USDT address otherwise, and
\* its amount parameter the amount asked for, converted with the decimals of
\* the currency (18 native, 6 stablecoins).
C20_CreateDescriptor ==
    (resp.op = "create" /\ resp.code = 200) =>
        /\ Len(resp.instructions) = 1
        /\ LET tx == resp.instructions[1] IN
           /\ tx.fn = "createTask"
           /\ tx.to = CONTRACT_ADDRESS
           /\ tx.from = Lower(resp.input)
           /\ tx.nonce = TxCountOf(resp.input)
           /\ tx.arg.token = ZERO_ADDRESS <=> resp.currency = "AVAX"
           /\ resp.currency = "USDC" => tx.arg.token = USDC_ADDRESS
           /\ resp.currency = "USDT" => tx.arg.token = USDT_ADDRESS
           /\ tx.arg.amount = token_to_base_unit(resp.amount, DecimalsOf(resp.currency))
           /\ tx.arg.freelancer = resp.freelancer_address

\* a stablecoin task asked for by a caller who has sent transactions before
C20_Witness ==
    /\ resp.op = "create" /\ resp.code = 200
    /\ resp.currency = "USDC"
    /\ resp.instructions[1].nonce > 0
    /\ resp.instructions[1].arg.amount = <<<<"1", 1>>, <<"0", 6>>>>

----------------------------------------------------------------------------
\* the tasks of the chain in which the wallet a has the role
ChainTasks(role, a) == {t \in 1..taskCounter : tasks[t][role] = Lower(a)}

\* the members of a list
Members(list) == {list[i] : i \in 1..Len(list)}

\* C11: the lookups of the profile (client tasks, freelancer tasks, native
\* balance, USDC balance, USDT balance) fail independently.  Whatever subset
\* of them fails, the profile is answered with success, every lookup that
\* failed shows its default ("0", the empty list) and every lookup that
\* succeeded shows the value the chain holds.
C11_ProfileLookupsIndependent ==
    (resp.op = "profile" /\ resp.raised = 0) =>
        /\ resp.code = 200
        /\ \A role \in {"client", "freelancer"} :
              LET list == IF role = "client" THEN resp.client_tasks
                          ELSE resp.freelancer_tasks
              IN  IF role \in resp.failed THEN list = <<>>
                  ELSE /\ Members(list) = ChainTasks(role, resp.caller)
                       /\ Len(list) = Cardinality(ChainTasks(role, resp.caller))
        /\ \A c \in {"AVAX", "USDC", "USDT"} :
              IF c \in resp.failed THEN resp.wallet_balances[c] = Str0
              ELSE resp.wallet_balances[c] =
                     DecStr(DecDivPow10(resp.chain[c], DecimalsOf(c)))

\* a profile in which the freelancer tasks and the USDC balance failed and
\* the client tasks, the native balance and the USDT balance did not
C11_Witness ==
    /\ resp.op = "profile" /\ resp.code = 200
    /\ resp.failed = {"freelancer", "USDC"}
    /\ resp.client_tasks # <<>>
    /\ resp.freelancer_tasks = <<>>
    /\ ChainTasks("freelancer", resp.caller) # {}
    /\ resp.wallet_balances.AVAX = <<<<"2", 1>>>>
    /\ resp.wallet_balances.USDC = Str0
    /\ resp.wallet_balances.USDT = <<<<"0", 1>>, <<".", 1>>, <<"0", 5>>, <<"1", 1>>>>

----------------------------------------------------------------------------
\* the call on which a dependency's own check rests
OwnCall(dep) == IF dep = "contract" THEN "taskCounter" ELSE dep

\* C18: in /health and /network/health the checks of the gateway, of the
\* escrow contract and of each token are independent: a dependency that is
\* reachable (the gateway is up and its own call does not fail) is checked
\* and reported healthy whatever other check fails, the read of the latest
\* block or the other token included.
C18_HealthChecksIndependent ==
    (resp.op \in {"health", "network_health"}) =>
        LET deps == IF resp.op = "health" THEN {"web3", "contract"}
                    ELSE {"web3", "contract", "USDC", "USDT"}
        IN  \A dep \in deps :
               (GatewayUp /\ OwnCall(dep) \notin resp.failed) =>
                   /\ dep \in resp.checked
                   /\ dep \in resp.healthy

----------------------------------------------------------------------------
\* C13: GET /tasks/my is handed to the my-tasks operation, not to the
\* task-by-id route registered before it, and answers with the tasks in
\* which the caller is client or freelancer, each once and each with the
\* caller's role.
C13_MyTasksDispatched ==
    (/\ resp.op = "GET" /\ resp.path = Path("tasks", SegMy)
     /\ resp.caller # <<>> /\ resp.failed = {}) =>
        /\ resp.endpoint = "get_my_tasks"
        /\ resp.code = 200
        /\ {resp.tasks[i].id : i \in 1..Len(resp.tasks)}
             = ChainTasks("client", resp.caller) \cup ChainTasks("freelancer", resp.caller)
        /\ \A i, j \in 1..Len(resp.tasks) :
              resp.tasks[i].id = resp.tasks[j].id => i = j
        /\ \A i \in 1..Len(resp.tasks) :
              resp.tasks[i].user_role =
                 IF resp.tasks[i].id \in ChainTasks("client", resp.caller)
                 THEN "client" ELSE "freelancer"

----------------------------------------------------------------------------
\* a step of the API: a request is answered or a handler moves on
ApiStep == resp' # NoResp \/ req' # req

\* C14: no operation of the API submits or signs a transaction.  Every step
\* of every request leaves the state of the chain (tasks and their status,
\* allowances, the transaction counts of the senders) as it was; what the
\* API changes is the user directory and the metadata store.
C14_ApiLeavesChainUnchanged ==
    [][ApiStep => UNCHANGED <<tasks, taskCounter, txCount, allowance>>]_vars

\* a fundTask descriptor handed out, after transactions of the caller on the
\* chain, while the directory and the metadata store hold what requests put
\* there
C14_Witness ==
    /\ resp.op = "fund" /\ resp.code = 200
    /\ Len(resp.instructions) = 1
    /\ resp.instructions[1].nonce > 0
    /\ taskCounter > 0
    /\ txCount[WalletA] > 0
    /\ DOMAIN users_db # {}
    /\ DOMAIN task_metadata_db # {}

----------------------------------------------------------------------------
\* C21: a deliver request succeeds only if the task is Funded and the caller
\* is its freelancer, an approve request only if the task is Funded and the
\* caller is its client; the task is Funded both when the handler reads it
\* and when it answers.  A request that succeeds returns exactly one
\* descriptor, markDelivered or approveTask of that task id on the escrow
\* contract, whose sender is the caller and whose nonce is the caller's
\* transaction count.
C21_DeliverApproveSingleDescriptor ==
    (resp.op \in {"deliver", "approve"} /\ resp.code = 200) =>
        /\ resp.task.status = FUNDED
        /\ TaskAt(resp.task_id).status = FUNDED
        /\ resp.task.id = resp.task_id
        /\ IF resp.op = "deliver" THEN IsFreelancer(resp) ELSE IsClient(resp)
        /\ Len(resp.instructions) = 1
        /\ LET tx == resp.instructions[1] IN
           /\ tx.fn = IF resp.op = "deliver" THEN "markDelivered" ELSE "approveTask"
           /\ tx.to = CONTRACT_ADDRESS
           /\ tx.arg = resp.task_id
           /\ tx.from = Lower(resp.input)
           /\ tx.nonce = TxCountOf(resp.input)
           /\ tx.value = 0

\* the client, who has sent two transactions, is handed approveTask
C21_Witness ==
    /\ resp.op = "approve" /\ resp.code = 200
    /\ resp.instructions[1].fn = "approveTask"
    /\ resp.instructions[1].nonce = 2
    /\ resp.input = MixedA

----------------------------------------------------------------------------
\* the instruction routes
InstructionOps == {"create", "fund", "deliver", "approve"}

\* the reason for which the call estimated last by the request reverts on
\* the chain as it is, "" if it does not
RevertNow(r) ==
    CASE r.op = "create" ->
             CreateTaskRevert(r.freelancer_address,
                              token_to_base_unit(r.amount, DecimalsOf(r.currency)),
                              r.deadline)
      [] r.op = "fund" ->
             FundTaskRevert(r.caller, r.task_id,
                            IF r.currency = "AVAX" THEN r.task.amount ELSE 0)
      [] r.op = "deliver" -> MarkDeliveredRevert(r.caller, r.task_id)
      [] r.op = "approve" -> ApproveTaskRevert(r.caller, r.task_id)

\* C22: when gas estimation fails for a step of an instruction sequence
\* (createTask, approve, fundTask, markDelivered, approveTask) the request
\* fails with a client error that carries the revert reason of the call and
\* returns no descriptor; a request is answered with descriptors only if its
\* last call does not revert, and a fund-instructions answer never holds an
\* approve descriptor that is not followed by its fundTask descriptor.
C22_SimulationFailureNoDescriptor ==
    /\ (resp.op \in InstructionOps /\ resp.detail = "simulation") =>
          /\ resp.code >= 400 /\ resp.code < 500
          /\ resp.instructions = <<>>
          /\ resp.reason # ""
          /\ resp.reason = RevertNow(resp)
    /\ (resp.op \in InstructionOps /\ resp.code = 200) => RevertNow(resp) = ""
    /\ (resp.op \in InstructionOps /\ resp.instructions # <<>>) =>
          /\ resp.code = 200
          /\ resp.instructions[Len(resp.instructions)].fn # "approve"

\* the fundTask step of a USDC task reverts after the approve descriptor was
\* built: nothing is returned
C22_Witness ==
    /\ resp.op = "fund" /\ resp.detail = "simulation"
    /\ resp.currency = "USDC"
    /\ resp.calls > 4
    /\ resp.reason = "transferFrom"
    /\ resp.instructions = <<>>

----------------------------------------------------------------------------
\* a step that ends a started request
Completes == req.pc # "idle" /\ req'.pc = "idle"

----------------------------------------------------------------------------
\* a fund request that went down one of its two paths: it answers, or its
\* simulation on that path failed
FundPathTaken == resp.op = "fund" /\ resp.read /\ resp.detail \in {"", "simulation"}

\* C24: fund-instructions goes the native path exactly when the token field
\* of the task on the chain is the zero address, and the ERC-20 path
\* otherwise, with or without a metadata entry and whatever its currency.
\* An answer of the native path is one fundTask descriptor carrying the
\* amount as value; an answer of the ERC-20 path carries no value.
C24_PathFollowsChainToken ==
    FundPathTaken =>
        /\ (resp.currency = "AVAX") <=> (resp.task.token = ZERO_ADDRESS)
        /\ (resp.code = 200 /\ resp.task.token = ZERO_ADDRESS) =>
              /\ Len(resp.instructions) = 1
              /\ resp.instructions[1].value = resp.task.amount
        /\ (resp.code = 200 /\ resp.task.token # ZERO_ADDRESS) =>
              \A i \in 1..Len(resp.instructions) : resp.instructions[i].value = 0

----------------------------------------------------------------------------
\* the status the operation requires of the task
RequiredStatus(op) == IF op = "fund" THEN CREATED ELSE FUNDED

\* C25: in fund-instructions, deliver and approve the role check comes before
\* the status check.  A caller who does not hold the role is refused with the
\* role violation (raised as 403, 'only the client / the freelancer'),
\* whatever the status of the task, the wrong ones included: the refusal is
\* the same for every status, and no call follows it.
C25_RoleCheckedBeforeStatus ==
    (resp.op \in GuardedOps /\ resp.read /\ RoleViolation(resp)) =>
        /\ resp.raised = 403
        /\ resp.detail = "role"
        /\ resp.code = HandlerExcept(403)
        /\ resp.calls = 0
        /\ resp.instructions = <<>>

\* the freelancer asks to fund a task that is no longer Created: both checks
\* would refuse, the role refusal is the one raised
C25_Witness ==
    /\ resp.op = "fund" /\ resp.read /\ resp.task.id # 0
    /\ RoleViolation(resp)
    /\ resp.task.status # RequiredStatus("fund")
    /\ resp.raised = 403 /\ resp.detail = "role"

----------------------------------------------------------------------------
(* Properties of the user directory (SpecUsers) *)

\* the key is spelled in lower case in the form of an address, one the
\* library accepts when it is there to be asked, and is the wallet_address
\* of the record stored under it
KeyOfRecord(k) ==
    /\ k = Lower(k)
    /\ StartsWith0x(k) /\ StrLen(k) = AddrLen
    /\ w3init => IsAddress(k)
    /\ users_db[k].wallet_address = k

\* C26: after any sequence of requests every key of the user directory is a
\* lower-case address and equals the wallet_address of the User stored under
\* it, no two entries hold the same User id, and an entry once present is
\* never removed.
C26_DirectoryInvariant ==
    /\ [](\A k \in DOMAIN users_db : KeyOfRecord(k))
    /\ [](\A k1, k2 \in DOMAIN users_db :
             users_db[k1].id = users_db[k2].id => k1 = k2)
    /\ [][DOMAIN users_db \subseteq DOMAIN users_db']_vars

\* two records, one made by a registration in checksum spelling and one by a
\* bearer token, after a later request
C26_Witness ==
    /\ Cardinality(DOMAIN users_db) = 2
    /\ Lower(MixedA) \in DOMAIN users_db /\ users_db[Lower(MixedA)].is_freelancer
    /\ \E k \in DOMAIN users_db : ~users_db[k].is_freelancer /\ users_db[k].id = 2
    /\ resp.op \in {"auth", "register"} /\ ~resp.created /\ resp.code = 200

\* C27: a registration for an address that already has a record, made by an
\* earlier registration or by the first use of the address as bearer token,
\* answers with the record held and changes nothing: the email and the
\* freelancer flag of the request are ignored.  No request changes a record
\* once made, and a record made for a bearer token has no email and
\* is_freelancer false, so it keeps them through later registrations.
C27_RegisterExistingUnchanged ==
    [][ /\ \A k \in DOMAIN users_db :
              k \in DOMAIN users_db' /\ users_db'[k] = users_db[k]
        /\ (resp'.op = "auth" /\ resp'.code = 200 /\ resp'.created) =>
              /\ users_db'[Lower(resp'.input)].email = "none"
              /\ ~users_db'[Lower(resp'.input)].is_freelancer
        /\ (/\ resp'.op = "register" /\ resp'.code = 200
            /\ Lower(resp'.input) \in DOMAIN users_db) =>
              LET held == users_db[Lower(resp'.input)] IN
              /\ users_db' = users_db
              /\ ~resp'.created
              /\ resp'.user_id = held.id
              /\ resp'.caller = held.wallet_address
              /\ resp'.email = held.email
              /\ resp'.is_freelancer = held.is_freelancer
      ]_vars

\* a wallet first seen as bearer token registers later as a freelancer with
\* an email, and is answered with its record: no email, not a freelancer
C27_Witness ==
    /\ resp.op = "register" /\ resp.code = 200 /\ ~resp.created
    /\ resp.body_email = "e1" /\ resp.body_is_freelancer
    /\ resp.email = "none" /\ ~resp.is_freelancer
    /\ users_db[Lower(resp.input)].email = "none"
    /\ ~users_db[Lower(resp.input)].is_freelancer

----------------------------------------------------------------------------
\* the record get_current_user makes for a token it has not seen
LazyUser(token) == User(nextUid, Lower(token), "none", FALSE)

\* C28: a request that ends in an error leaves the metadata store and the
\* user directory as they were, but for the record made for the caller when
\* the bearer token was resolved: a refused or failed metadata update stores
\* nothing, a rejected registration or a rejected token adds no record.
C28_ErrorLeavesStoresUnchanged ==
    [][ (resp'.code >= 400) =>
          /\ task_metadata_db' = task_metadata_db
          /\ \/ users_db' = users_db
             \/ /\ resp'.op \notin {"register", "auth"}
                /\ resp'.raised # 401
                /\ Lower(resp'.input) \notin DOMAIN users_db
                /\ users_db' = PutUser(users_db, Lower(resp'.input),
                                       LazyUser(resp'.input))
      ]_vars

\* a metadata update by the freelancer, refused, for a task whose entry the
\* client stored before; the freelancer's record was made on the way
C28_Witness ==
    /\ resp.op = "metadata" /\ resp.raised = 403 /\ resp.code >= 400
    /\ resp.task_id \in DOMAIN task_metadata_db
    /\ resp.task.id # 0
    /\ Lower(resp.input) \in DOMAIN users_db
    /\ users_db[Lower(resp.input)].id > 1

----------------------------------------------------------------------------
\* a step of one of the four routes that build instructions
InstructionStep ==
    /\ ApiStep
    /\ req.op \in InstructionOps \/ req'.op \in InstructionOps \/ resp'.op \in InstructionOps

\* C29: the routes that build instructions (create, fund, deliver, approve)
\* never write the metadata store.  A successful create answers with the
\* currency of its request and stores nothing; the store changes only by a
\* successful metadata update, and a task without an entry is taken for a
\* native-coin task by fund-instructions and by the task view.
C29_InstructionsLeaveMetadata ==
    [][ /\ InstructionStep => task_metadata_db' = task_metadata_db
        /\ (task_metadata_db' # task_metadata_db) =>
              (resp'.op = "metadata" /\ resp'.code = 200)
        /\ (resp'.op = "create" /\ resp'.code = 200) =>
              /\ resp'.currency = req.currency
              /\ DOMAIN task_metadata_db' = DOMAIN task_metadata_db
        /\ (/\ resp'.op \in {"fund", "get_task"} /\ resp'.read
            /\ resp'.detail \in {"", "simulation"}
            /\ resp'.task_id \notin DOMAIN task_metadata_db') =>
              resp'.currency = "AVAX"
      ]_vars

\* a create for a USDC task answered; the task is then on the chain with the
\* USDC token, has no entry, and its view says AVAX
C29_Witness ==
    /\ resp.op = "get_task" /\ resp.code = 200
    /\ Lower(resp.task.token) = USDC_ADDRESS
    /\ resp.task_id \notin DOMAIN task_metadata_db
    /\ resp.currency = "AVAX"

----------------------------------------------------------------------------
\* C30: in every answer of the ERC-20 path of fund-instructions the list is
\* not empty, has one or two instructions numbered 1..n in their order, ends
\* with fundTask on the escrow contract, and holds an approve only as step 1
\* of a list of two: on the token contract of the currency, with the escrow
\* as spender and the amount of the task on the chain.
C30_TokenListShape ==
    FundTokenAnswer =>
        LET list == resp.instructions
            n    == Len(list)
        IN  /\ n \in {1, 2}
            /\ \A i \in 1..n :
                  /\ list[i].step = i
                  /\ list[i].fn \in {"approve", "fundTask"}
                  /\ list[i].fn = "approve" =>
                        /\ i = 1 /\ n = 2
                        /\ list[i].to = TokenAddress(resp.currency)
                        /\ list[i].spender = CONTRACT_ADDRESS
                        /\ list[i].arg = resp.task.amount
            /\ list[n].fn = "fundTask"
            /\ list[n].to = CONTRACT_ADDRESS
            /\ list[n].arg = resp.task_id

\* an answer of two instructions: the allowance read was short, and was
\* raised on the chain before fundTask was simulated
C30_Witness ==
    /\ FundTokenAnswer
    /\ Len(resp.instructions) = 2
    /\ resp.instructions[1].fn = "approve"
    /\ resp.allowance < resp.task.amount
    /\ resp.task.amount > 1

====
